---- MODULE Spec2Model ----
(***************************************************************************)
(* A state-machine model of the mineplace3d voxel engine.                  *)
(*                                                                         *)
(*   SpecPalette  the palette-compressed 16x16x16 chunk of mp3d-core        *)
(*                (mp3d-core/src/world/chunk.rs)                            *)
(*   SpecMesh     the chunk mesher and the occlusion table                  *)
(*                (src/game/chunk.rs, src/game/block.rs)                    *)
(*   Spec         the world container: residency, edits, change log,        *)
(*                overspill, the generation worker and the main loop        *)
(*                (src/game/world.rs, src/game/other.rs, src/main.rs)       *)
(*                                                                         *)
(* Vectors (IVec3) are triples <<x, y, z>>.  HashMaps are functions whose   *)
(* DOMAIN is the key set.                                                   *)
(***************************************************************************)
EXTENDS Integers, Sequences, FiniteSets, TLC

VARIABLES
    block_palette,  \* mp3d-core Chunk::block_palette : Vec<Block>
    blocks,         \* mp3d-core Chunk::blocks : [u16; 4096]
    shadow,         \* history: per probed slot, the block last written to it
                    \* (the block it was created with, if never written)
    generated,      \* World::noise, cave_noise, biome_noise, as the value
                    \* that Chunk::new returns with them for each coordinate
    chunks,         \* World::chunks : HashMap<IVec3, Chunk>
    changes,        \* World::changes : HashMap<(IVec3, IVec3), Block>
    chunk_outside_blocks,  \* World::chunk_outside_blocks, the overspill table
    meshes,         \* World::meshes : HashMap<IVec3, Mesh>
    unused_meshes,  \* World::unused_meshes, as the number of meshes it holds
    player_position,  \* Player::position, in whole blocks
    queued_chunks,  \* main: queued_chunks : HashSet<IVec3>
    task_channel,   \* main: the ChunkTask channel to the generation thread
    result_channel, \* main: the ChunkResult channel from the generation thread
    pc,             \* main: the step of the frame the main loop is at
    moves,          \* history: the number of times the player was teleported
    edits,          \* history: the number of World::set_block calls
    last,           \* the operation performed last: name, arguments,
                    \* result; in Spec, the one of the current frame
    calls,          \* history: the number of calls made of the operation
                    \* the specification is about
    drawn,          \* history: the values drawn from random number
                    \* generators by all the Chunk::new calls made
    first_generated, \* history: per chunk coordinate, the thread and the
                    \* result of the first Chunk::new call for it
    mesh_visible,   \* World::mesh_visible : HashSet<IVec3>
    previous_vp,    \* World::previous_vp : Option<Mat4>
    entities,       \* World::entities : HashMap<EntityId, Rc<RefCell<dyn Entity>>>
    seed,           \* World::noise.seed, the seed the world was made with
    call_stack,     \* the calls of World::break_block in progress, the
                    \* innermost last
    mesh_data,      \* chunk coordinate -> the vertices and indices last
                    \* uploaded to the mesh of the chunk
    server          \* mp3d-core: the Server, with its World

(***************************************************************************)
(* Integer arithmetic of the source language                               *)
(***************************************************************************)

\* i32 `/` : division truncating towards zero
TruncDiv(a, b) ==
    IF (a >= 0) = (b > 0)
    THEN (IF a >= 0 THEN a ELSE -a) \div (IF b > 0 THEN b ELSE -b)
    ELSE -((IF a >= 0 THEN a ELSE -a) \div (IF b > 0 THEN b ELSE -b))

\* i32 `%` : remainder with the sign of the dividend
TruncRem(a, b) == a - b * TruncDiv(a, b)

\* i32::rem_euclid : r = a % b; if r < 0 then r + |b| else r
rem_euclid(a, b) ==
    LET r == TruncRem(a, b)
    IN  IF r < 0 THEN r + (IF b < 0 THEN -b ELSE b) ELSE r

DivTruncated(a, b) == TruncDiv(a, b)

\* i32::div_euclid : q = a / b; if a % b < 0 then (if b > 0 then q-1 else q+1)
div_euclid(a, b) ==
    LET q == TruncDiv(a, b)
    IN  IF TruncRem(a, b) < 0
        THEN (IF b > 0 THEN q - 1 ELSE q + 1)
        ELSE q

\* A Vec built from a function on 1..n
AsVec(f) == SubSeq(f, 1, Len(f))

\* IVec3 addition
Add3(a, b) == <<a[1] + b[1], a[2] + b[2], a[3] + b[3]>>

\* `as u16` : keep the low 16 bits
U16 == 65536

AsU16(n) == n % U16

(***************************************************************************)
(* mp3d-core: Block and the palette chunk                                  *)
(***************************************************************************)

CHUNK_SIZE == 16

\* Number of slots of a chunk
NumSlots == CHUNK_SIZE * CHUNK_SIZE * CHUNK_SIZE

\* A Block {full, color} is represented by a number: 0..3 are the predefined
\* Block::AIR, GRASS, DIRT, STONE, any other number is a block declared on
\* the fly with its own (full, color) pair.  derive(PartialEq) compares the
\* fields, so two blocks are equal iff their numbers are.
AIR == 0

GRASS == 1

DIRT == 2

STONE == 3

\* Abstract samples of the noise source handed to Chunk::new (an external
\* library): the terrain height, always >= 15 (noise^2 * 60 + 15), and the
\* cave predicate, as fixed functions of the global coordinates.
CoreNoiseHeight(gx, gz) == 15 + ((gx + 2 * gz) % 3)

CoreNoiseIsCave(gx, gy, gz) == (gx + 3 * gy + 5 * gz) % 7 = 0

\* Chunk::new, the palette index written for slot (x, y, z) of chunk chunk_pos
CoreGenIndex(chunk_pos, x, y, z) ==
    LET global_x == chunk_pos[1] * CHUNK_SIZE + x
        global_y == chunk_pos[2] * CHUNK_SIZE + y
        global_z == chunk_pos[3] * CHUNK_SIZE + z
        height == CoreNoiseHeight(global_x, global_z)
    IN  IF CoreNoiseIsCave(global_x, global_y, global_z) THEN 0
        ELSE IF global_y < height - 3 THEN 3
        ELSE IF global_y < height - 1 THEN 2
        ELSE IF global_y < height THEN 1
        ELSE 0

\* Chunk::new : blocks[x + CHUNK_SIZE * (y + CHUNK_SIZE * z)], and the
\* palette [AIR, GRASS, DIRT, STONE]
CoreChunkNew(chunk_pos) ==
    [ block_palette |-> <<AIR, GRASS, DIRT, STONE>>,
      blocks |-> [i \in 0..(NumSlots - 1) |->
                    CoreGenIndex(chunk_pos, i % CHUNK_SIZE,
                                 (i \div CHUNK_SIZE) % CHUNK_SIZE,
                                 i \div (CHUNK_SIZE * CHUNK_SIZE))] ]

\* index = local_pos.x + CHUNK_SIZE * (local_pos.y + CHUNK_SIZE * local_pos.z)
CoreSlotIndex(local_pos) ==
    local_pos[1] + CHUNK_SIZE * (local_pos[2] + CHUNK_SIZE * local_pos[3])

\* Chunk::get_block : &self.block_palette[self.blocks[index] as usize]
CoreGetBlock(chunk, local_pos) ==
    chunk.block_palette[chunk.blocks[CoreSlotIndex(local_pos)] + 1]

\* block_palette.iter().position(|b| *b == block): the first index holding
\* the block (0-based), or -1 for None
PalettePosition(palette, block) ==
    LET hits == {i \in 1..Len(palette) : palette[i] = block}
    IN  IF hits = {} THEN -1
        ELSE (CHOOSE i \in hits : \A j \in hits : i <= j) - 1

\* A set_block that appends the block without looking it up
CoreSetBlockAlwaysPush(chunk, local_pos, block) ==
    [ block_palette |-> Append(chunk.block_palette, block),
      blocks |-> [chunk.blocks EXCEPT ![CoreSlotIndex(local_pos)] =
                     AsU16(Len(chunk.block_palette))] ]

\* Chunk::set_block
CoreSetBlock(chunk, local_pos, block) ==
    LET index == CoreSlotIndex(local_pos)
        palette_index == PalettePosition(chunk.block_palette, block)
    IN  IF palette_index >= 0
        THEN [ block_palette |-> chunk.block_palette,
               blocks |-> [chunk.blocks EXCEPT ![index] = AsU16(palette_index)] ]
        ELSE [ block_palette |-> Append(chunk.block_palette, block),
               blocks |-> [chunk.blocks EXCEPT ![index] =
                              AsU16((Len(chunk.block_palette) + 1) - 1)] ]

\* The palette chunk of the current state
CoreChunk == [block_palette |-> block_palette, blocks |-> blocks]

(***************************************************************************)
(* Variable groups                                                         *)
(***************************************************************************)

paletteVars == <<block_palette, blocks, shadow>>

\* The variables the specification of the main loop leaves alone
restVars == <<mesh_data, server>>

auxVars == <<calls, drawn, first_generated, mesh_visible, previous_vp, entities, seed,
            call_stack, restVars>>

worldVars ==
    << generated, chunks, changes, chunk_outside_blocks, meshes, unused_meshes,
       player_position, queued_chunks, task_channel, result_channel, pc,
       moves, edits, last, auxVars >>

\* The variables the mesher and occlusion specifications leave alone
loopVars ==
    << generated, changes, chunk_outside_blocks, meshes, unused_meshes, player_position,
       queued_chunks, task_channel, result_channel, pc, moves, edits, auxVars >>

vars == <<paletteVars, worldVars>>

\* The operation record before any operation has run
NoOp == [op |-> "none", args |-> <<>>, result |-> <<>>]

\* The palette chunk is not part of the specification
PaletteIdle == block_palette = <<>> /\ blocks = <<>> /\ shadow = <<>>

\* No call has been counted
\* No mesh data is followed and there is no server
RestIdle == mesh_data = <<>> /\ server = <<>>

AuxIdle ==
    /\ calls = 0 /\ drawn = 0 /\ first_generated = <<>>
    /\ mesh_visible = {} /\ previous_vp = <<>> /\ entities = <<>>
    /\ seed = 0 /\ call_stack = <<>>
    /\ RestIdle

\* The world is not part of the specification
LoopIdle ==
    /\ AuxIdle
    /\ generated = <<>>
    /\ changes = <<>> /\ chunk_outside_blocks = <<>> /\ meshes = <<>>
    /\ unused_meshes = 0 /\ player_position = <<0, 0, 0>>
    /\ queued_chunks = {} /\ task_channel = <<>> /\ result_channel = <<>>
    /\ pc = "none" /\ moves = 0 /\ edits = 0

WorldIdle == chunks = <<>> /\ last = NoOp /\ LoopIdle

(***************************************************************************)
(* src/game/block.rs: Block, BlockType and the occlusion table             *)
(***************************************************************************)

\* enum Block (repr(u32)): a block is its discriminant, the shape tag in
\* bits 16..19 and the material in the low 16 bits.
Air == 0

Grass == 1

Dirt == 2

Stone == 4

OakLog == 5

Leaves == 6

Glass == 8

Snow == 10

Glungus == 11

Bedrock == 12

\* PARTIAL_SLAB_TOP | 0x0003
PlanksSlabTop == 65539

\* PARTIAL_STAIRS_N | 0x0007
StoneStairsN == 196615

\* mask_partial : (bits >> 16) & 0x000F
mask_partial(bits) == (bits \div 65536) % 16

\* Block::is_transparent
is_transparent(block) == block \in {Air, Leaves, Glass}

\* enum BlockType
BlockType == {"FullOpaque", "Translucent", "Partial", "Air"}

\* Block::block_type
block_type(block) ==
    IF block = Air THEN "Air"
    ELSE IF mask_partial(block) > 0 THEN "Partial"
    ELSE IF is_transparent(block) THEN "Translucent"
    ELSE "FullOpaque"

\* An occlusion rule that compares the two classes for equality
should_occlude_same_class(self_block, neighbour) ==
    self_block = neighbour /\ self_block \in {"FullOpaque", "Translucent"}

\* should_occlude: the match arms in their order
should_occlude(self_block, neighbour) ==
    CASE self_block = "FullOpaque" /\ neighbour = "FullOpaque" -> TRUE
      [] self_block = "FullOpaque" -> FALSE
      [] self_block = "Translucent" /\ neighbour = "FullOpaque" -> TRUE
      [] self_block = "Translucent" /\ neighbour = "Translucent" -> TRUE
      [] self_block = "Translucent" -> FALSE
      [] self_block = "Partial" -> FALSE
      [] self_block = "Air" -> FALSE

\* FACE_TEMPLATES[i].normal, i = 0..5 : +Z, -Z, +X, -X, +Y, -Y
FaceNormal(i) ==
    CASE i = 0 -> <<0, 0, 1>>
      [] i = 1 -> <<0, 0, -1>>
      [] i = 2 -> <<1, 0, 0>>
      [] i = 3 -> <<-1, 0, 0>>
      [] i = 4 -> <<0, 1, 0>>
      [] i = 5 -> <<0, -1, 0>>

\* Block::cubes : the cuboids of the block's shape, read from the model
\* definitions (assets/models.json).  A full block has one cuboid; the slab
\* is taken to have one and the stairs two.
cubes(block) ==
    IF block = Air THEN <<>>
    ELSE IF mask_partial(block) = 0 THEN << "full" >>
    ELSE IF mask_partial(block) \in {1, 2} THEN << "slab" >>
    ELSE << "stairs_lower", "stairs_upper" >>

(***************************************************************************)
(* src/game/chunk.rs: the chunk and its mesher                             *)
(*                                                                         *)
(* A Chunk is [is_dirty, blocks]; blocks is the Vec<Block> of 4096 slots,  *)
(* a sequence whose element idx + 1 is blocks[idx].  foliage_color only    *)
(* tints vertices and is left out.                                         *)
(***************************************************************************)

\* x * CHUNK_SIZE * CHUNK_SIZE + y * CHUNK_SIZE + z
SlotIndex(x, y, z) == x * CHUNK_SIZE * CHUNK_SIZE + y * CHUNK_SIZE + z

\* The local position of slot idx
SlotPos(idx) ==
    << idx \div (CHUNK_SIZE * CHUNK_SIZE), (idx \div CHUNK_SIZE) % CHUNK_SIZE,
       idx % CHUNK_SIZE >>

\* Chunk::get_block
Chunk_get_block(chunk, x, y, z) == chunk.blocks[SlotIndex(x, y, z) + 1]

\* Chunk::set_block : writes the slot and marks the chunk dirty
Chunk_set_block(chunk, x, y, z, block) ==
    [ is_dirty |-> TRUE,
      blocks |-> [chunk.blocks EXCEPT ![SlotIndex(x, y, z) + 1] = block] ]

\* Chunk::is_empty
Chunk_is_empty(chunk) ==
    \A i \in 1..NumSlots : block_type(chunk.blocks[i]) = "Air"

\* Chunk::is_side_full : 0 -Z, 1 +Z, 2 +X, 3 -X, 4 +Y, 5 -Y
Chunk_is_side_full(chunk, side) ==
    LET R == 0..(CHUNK_SIZE - 1)
        Opaque(x, y, z) == block_type(Chunk_get_block(chunk, x, y, z)) = "FullOpaque"
    IN  CASE side = 0 -> \A x \in R, y \in R : Opaque(x, y, 0)
          [] side = 1 -> \A x \in R, y \in R : Opaque(x, y, CHUNK_SIZE - 1)
          [] side = 2 -> \A y \in R, z \in R : Opaque(CHUNK_SIZE - 1, y, z)
          [] side = 3 -> \A y \in R, z \in R : Opaque(0, y, z)
          [] side = 4 -> \A x \in R, z \in R : Opaque(x, CHUNK_SIZE - 1, z)
          [] side = 5 -> \A x \in R, z \in R : Opaque(x, 0, z)
          [] OTHER -> FALSE

\* Option<&Chunk>: <<>> is None, <<c>> is Some(c)
None == <<>>

Some(c) == <<c>>

\* NeighbourChunks {n, s, e, w, u, d} as the closure index of all() sees them
NeighbourSlot(nei, i) ==
    CASE i = 0 -> nei.n
      [] i = 1 -> nei.s
      [] i = 2 -> nei.e
      [] i = 3 -> nei.w
      [] i = 4 -> nei.u
      [] i = 5 -> nei.d

\* NeighbourChunks::all(|i, c| c.is_side_full(i ^ 1)) : a neighbour that is
\* None is passed over
NeighbourChunks_all_side_full(nei) ==
    \A i \in 0..5 :
        \/ NeighbourSlot(nei, i) = None
        \/ Chunk_is_side_full(NeighbourSlot(nei, i)[1],
                              IF i % 2 = 0 THEN i + 1 ELSE i - 1)

\* A lookup that takes a missing neighbour chunk for solid
NeighbourTypeOrOpaque(opt, x, y, z) ==
    IF opt = None THEN "FullOpaque" ELSE block_type(Chunk_get_block(opt[1], x, y, z))

\* map(|c| c.get_block(x, y, z).block_type()).unwrap_or(BlockType::Air)
NeighbourTypeOr(opt, x, y, z) ==
    IF opt = None THEN "Air" ELSE block_type(Chunk_get_block(opt[1], x, y, z))

\* A lookup that never reads the neighbour chunks
neighbour_block_at_own_chunk(x, y, z, blocks_, nei) ==
    LET R == 0..(CHUNK_SIZE - 1)
    IN  IF x \in R /\ y \in R /\ z \in R
        THEN block_type(blocks_[SlotIndex(x, y, z) + 1])
        ELSE "Air"

\* neighbour_block_at (inside generate_chunk_mesh)
neighbour_block_at(x, y, z, blocks_, nei) ==
    LET R == 0..(CHUNK_SIZE - 1)
    IN  IF x \in R /\ y \in R /\ z \in R
        THEN block_type(blocks_[SlotIndex(x, y, z) + 1])
        ELSE IF x < 0 THEN NeighbourTypeOr(nei.w, CHUNK_SIZE - 1, y, z)
        ELSE IF x >= CHUNK_SIZE THEN NeighbourTypeOr(nei.e, 0, y, z)
        ELSE IF y < 0 THEN NeighbourTypeOr(nei.d, x, CHUNK_SIZE - 1, z)
        ELSE IF y >= CHUNK_SIZE THEN NeighbourTypeOr(nei.u, x, 0, z)
        ELSE IF z < 0 THEN NeighbourTypeOr(nei.n, x, y, CHUNK_SIZE - 1)
        ELSE NeighbourTypeOr(nei.s, x, y, 0)

\* The faces generate_chunk_mesh emits for slot idx, in the order of its
\* loops: for each cuboid of the block, for each face template i, unless
\* should_occlude(block.block_type(), neighbour)
SlotFaces(chunk, nei, idx) ==
    LET block == chunk.blocks[idx + 1]
        x == idx \div (CHUNK_SIZE * CHUNK_SIZE)
        y == (idx \div CHUNK_SIZE) % CHUNK_SIZE
        z == idx % CHUNK_SIZE
        cs == cubes(block)
        candidates == [k \in 1..(6 * Len(cs)) |->
                         [ block_pos |-> <<x, y, z>>,
                           cube |-> cs[((k - 1) \div 6) + 1],
                           face |-> (k - 1) % 6,
                           block |-> block ]]
        Emitted(f) ==
            LET nrm == FaceNormal(f.face)
            IN  ~should_occlude(block_type(block),
                    neighbour_block_at(x + nrm[1], y + nrm[2], z + nrm[3],
                                       chunk.blocks, nei))
    IN  IF block = Air THEN <<>> ELSE SelectSeq(candidates, Emitted)

\* The faces of slots lo .. hi - 1 in slot order (x outermost, z innermost)
RECURSIVE RangeFaces(_, _, _, _)
RangeFaces(chunk, nei, lo, hi) ==
    IF hi - lo = 1 THEN SlotFaces(chunk, nei, lo)
    ELSE LET mid == (lo + hi) \div 2
         IN  RangeFaces(chunk, nei, lo, mid) \o RangeFaces(chunk, nei, mid, hi)

\* Chunk::generate_chunk_mesh : (vertices, indices).  Face number n (from 0)
\* pushes its 4 corner vertices and, index_offset being 4 * n, the indices
\* o, o+1, o+2, o, o+2, o+3.  index_offset is a u32; a chunk has at most
\* 4096 * 6 faces per cuboid, so it never wraps.
generate_chunk_mesh(chunk, nei) ==
    LET faces == RangeFaces(chunk, nei, 0, NumSlots)
        n == Len(faces)
        quad == <<0, 1, 2, 0, 2, 3>>
    IN  [ vertices |-> [k \in 1..(4 * n) |->
                          [ block_pos |-> faces[((k - 1) \div 4) + 1].block_pos,
                            cube |-> faces[((k - 1) \div 4) + 1].cube,
                            face |-> faces[((k - 1) \div 4) + 1].face,
                            corner |-> (k - 1) % 4,
                            block |-> faces[((k - 1) \div 4) + 1].block % 65536 ]],
          indices |-> [k \in 1..(6 * n) |->
                          4 * ((k - 1) \div 6) + quad[((k - 1) % 6) + 1]] ]

(***************************************************************************)
(* src/game/chunk.rs: Chunk::new, terrain and trees                        *)
(*                                                                         *)
(* The noise library and the random number generator are outside the       *)
(* program.  The model fixes one sample of each: the values the three      *)
(* noise sources return at the coordinates asked, and the stream of values *)
(* the generator (seeded with noise.seed, so the same stream in every      *)
(* chunk) returns draw after draw.                                         *)
(***************************************************************************)

Abs(n) == IF n < 0 THEN -n ELSE n

\* HashMap: a function on its key set; the empty map
EmptyMap == <<>>

\* `height` of column (real_x, real_z): level ground one block high and a
\* hill twelve blocks high whose top is the column (15, 8)
height_sample(real_x, real_z) ==
    LET h == 12 - 2 * (Abs(real_x - 15) + Abs(real_z - 8))
    IN  IF h > 1 THEN h ELSE 1

\* is_cave : cave_noise > cave_thresh; no cave in the sample
is_cave_sample(real_x, real_y, real_z) == FALSE

\* is_ore : ore_val > ore_thresh
is_ore_sample(real_x, real_y, real_z) ==
    (3 * real_x + 5 * real_y + 7 * real_z) % 61 = 0

\* t, the weight of the mountain biome from biome_noise, in tenths
biome_t_sample(real_x, real_z) == (Abs(real_x) + 2 * Abs(real_z)) % 11

\* foliage_color_val of a column: plains_foliage_color * (1 - t) +
\* mtn_foliage_color * t, the colours in tenths, so the value in hundredths
foliage_color_val(real_x, real_z) ==
    LET t == biome_t_sample(real_x, real_z)
    IN  << 5 * (10 - t) + 1 * t, 10 * (10 - t) + 7 * t, 5 * (10 - t) + 5 * t >>

\* snow_replace_grass_chance, in twelfths
snow_replace_grass_chance(height) ==
    IF height <= 96 THEN 0
    ELSE IF height >= 108 THEN 12
    ELSE height - 96

\* The draw of the stream that makes rng.random_bool(0.005) true
TreeDraw == 504

\* rng.random::<f64>() as draw number n, in twelfths
rng_f64_sample(n) == n % 12

\* rng.random_bool(0.5) as draw number n
rng_bool_half_sample(n) == n % 2 = 0

\* rng.random_bool(0.005) as draw number n
rng_bool_tree_sample(n) == n = TreeDraw

\* rng.random_range(4..7) as draw number n
rng_range_sample(n) == 4 + (n % 3)

\* A generator shared by the calls: it goes on where the calls before
\* have left it
seed_from_u64_shared(before) == before

\* StdRng::seed_from_u64(noise.seed), the first statement of Chunk::new: the
\* generator of a call is a new one at the start of the stream of the seed,
\* whatever has been drawn before the call
seed_from_u64(before) == 0

\* The chunk has the row real_y = -30, where every column draws a bool
HasBedrockDraw(cy) ==
    cy * CHUNK_SIZE <= -30 /\ -30 <= cy * CHUNK_SIZE + CHUNK_SIZE - 1

\* Chunk::new, first pass: the block of slot (x, y, z), with the generator
\* at draw `rng` when the pass starts.  Column number x * 16 + z draws
\* random_f64 and, in the row real_y = -30, one bool.
terrain_block(rng, cx, cy, cz, x, y, z) ==
    LET real_x == x + cx * CHUNK_SIZE
        real_y == y + cy * CHUNK_SIZE
        real_z == z + cz * CHUNK_SIZE
        column == x * CHUNK_SIZE + z
        f64_draw == rng + (IF HasBedrockDraw(cy) THEN 2 * column ELSE column)
        height == height_sample(real_x, real_z)
    IN  IF real_y < -32 THEN Air
        ELSE IF real_y = -31 THEN Bedrock
        ELSE IF real_y = -30 /\ rng_bool_half_sample(f64_draw + 1) THEN Bedrock
        ELSE IF is_cave_sample(real_x, real_y, real_z) THEN Air
        ELSE IF real_y < height - 3
             THEN (IF is_ore_sample(real_x, real_y, real_z) THEN Glungus ELSE Stone)
        ELSE IF real_y < height - 1 THEN Dirt
        ELSE IF rng_f64_sample(f64_draw) < snow_replace_grass_chance(height)
                /\ real_y < height
             THEN Snow
        ELSE IF real_y < height THEN Grass
        ELSE Air

\* The draws the first pass has made
terrain_draws(cy) ==
    IF HasBedrockDraw(cy) THEN 2 * CHUNK_SIZE * CHUNK_SIZE
    ELSE CHUNK_SIZE * CHUNK_SIZE

\* get_chunk_and_local_coords : (chunk, local) of a world position
get_chunk_and_local_coords(x, y, z) ==
    << << div_euclid(x, CHUNK_SIZE), div_euclid(y, CHUNK_SIZE),
          div_euclid(z, CHUNK_SIZE) >>,
       << rem_euclid(x, CHUNK_SIZE), rem_euclid(y, CHUNK_SIZE),
          rem_euclid(z, CHUNK_SIZE) >> >>

\* place_block, on the generation state g = [blocks, outside_blocks, draws]:
\* a block of this chunk is written, a block of another chunk is recorded
\* with entry().or_insert(), which keeps an entry already there
place_block(g, chunk_pos, target_chunk, local, block) ==
    IF target_chunk = chunk_pos
    THEN IF local[2] >= 0 /\ local[2] < CHUNK_SIZE
         THEN [g EXCEPT !.blocks[SlotIndex(local[1], local[2], local[3]) + 1] = block]
         ELSE g
    ELSE IF <<target_chunk, local>> \in DOMAIN g.outside_blocks
         THEN g
         ELSE [g EXCEPT !.outside_blocks = @ @@ (<<target_chunk, local>> :> block)]

\* The trunk at ty = from .. tree_height above the grass block
RECURSIVE place_trunk(_, _, _, _, _)
place_trunk(g, chunk_pos, grass, tree_height, from) ==
    IF from > tree_height THEN g
    ELSE LET t == get_chunk_and_local_coords(grass[1], grass[2] + from, grass[3])
         IN  place_trunk(place_block(g, chunk_pos, t[1], t[2], OakLog),
                         chunk_pos, grass, tree_height, from + 1)

\* The offsets of the leaves in the order of the loops lx, lz, ly
leaf_offsets ==
    SelectSeq([n \in 1..125 |-> << ((n - 1) \div 25) - 2, ((n - 1) % 5) - 2,
                                   (((n - 1) \div 5) % 5) - 2 >>],
              LAMBDA o : Abs(o[1]) + Abs(o[2]) + Abs(o[3]) <= 3)

\* One leaf, at offset number n around centre = (x, leaf_start, z): it goes
\* where this chunk has Air, and anywhere in another chunk
place_leaf(g, chunk_pos, centre, n) ==
    LET t == get_chunk_and_local_coords(centre[1] + leaf_offsets[n][1],
                                        centre[2] + leaf_offsets[n][2],
                                        centre[3] + leaf_offsets[n][3])
        l == t[2]
        is_air == IF t[1] = chunk_pos
                  THEN l[2] < CHUNK_SIZE
                       /\ g.blocks[SlotIndex(l[1], l[2], l[3]) + 1] = Air
                  ELSE TRUE
    IN  IF is_air THEN place_block(g, chunk_pos, t[1], l, Leaves) ELSE g

\* The leaves number lo .. hi - 1 one after the other
RECURSIVE place_leaves(_, _, _, _, _)
place_leaves(g, chunk_pos, centre, lo, hi) ==
    IF hi - lo = 1 THEN place_leaf(g, chunk_pos, centre, lo)
    ELSE LET first == place_leaves(g, chunk_pos, centre, lo, (lo + hi) \div 2)
         IN  IF first.draws = g.draws
             THEN place_leaves(first, chunk_pos, centre, (lo + hi) \div 2, hi)
             ELSE first

\* The y of the highest block of column (x, z) that is not Air, or -1
RECURSIVE top_block(_, _, _, _)
top_block(blocks_, x, z, y) ==
    IF y < 0 THEN -1
    ELSE IF blocks_[SlotIndex(x, y, z) + 1] # Air THEN y
    ELSE top_block(blocks_, x, z, y - 1)

\* Chunk::new, second pass, one column: the column whose highest block is
\* Grass draws a bool, and on true a height, and grows a tree
tree_column(g, chunk_pos, column) ==
    LET x == column \div CHUNK_SIZE
        z == column % CHUNK_SIZE
        y == top_block(g.blocks, x, z, CHUNK_SIZE - 1)
        grass == y >= 0 /\ g.blocks[SlotIndex(x, (IF y >= 0 THEN y ELSE 0), z) + 1] = Grass
        tree == grass /\ rng_bool_tree_sample(g.draws)
        tree_height == rng_range_sample(g.draws + 1)
        global == << chunk_pos[1] * CHUNK_SIZE + x,
                     chunk_pos[2] * CHUNK_SIZE + y,
                     chunk_pos[3] * CHUNK_SIZE + z >>
        g1 == [g EXCEPT !.draws = @ + 2]
        g2 == place_trunk(g1, chunk_pos, global, tree_height, 1)
    IN  IF tree
        THEN place_leaves(g2, chunk_pos,
                          <<global[1], global[2] + tree_height, global[3]>>,
                          1, Len(leaf_offsets) + 1)
        ELSE IF grass THEN [g EXCEPT !.draws = @ + 1]
        ELSE g

\* Chunk::new, second pass: columns lo .. hi - 1 one after the other
RECURSIVE tree_pass(_, _, _, _)
tree_pass(g, chunk_pos, lo, hi) ==
    IF hi - lo = 1 THEN tree_column(g, chunk_pos, lo)
    ELSE LET left == tree_pass(g, chunk_pos, lo, (lo + hi) \div 2)
         IN  IF left.draws >= g.draws
             THEN tree_pass(left, chunk_pos, (lo + hi) \div 2, hi)
             ELSE left

\* Chunk::new called after `before` values have been drawn by the calls
\* before it: (chunk, outside_blocks), and the number of values it draws
Chunk_new_after(before, cx, cy, cz) ==
    LET rng == seed_from_u64(before)
        g == tree_pass(
                [ blocks |-> AsVec([i \in 1..NumSlots |->
                      terrain_block(rng, cx, cy, cz,
                                    (i - 1) \div (CHUNK_SIZE * CHUNK_SIZE),
                                    ((i - 1) \div CHUNK_SIZE) % CHUNK_SIZE,
                                    (i - 1) % CHUNK_SIZE)]),
                  outside_blocks |-> EmptyMap,
                  draws |-> rng + terrain_draws(cy) ],
                <<cx, cy, cz>>, 0, CHUNK_SIZE * CHUNK_SIZE)
    IN  [ chunk |-> [is_dirty |-> TRUE, blocks |-> g.blocks],
          foliage_color |-> AsVec([i \in 1..(CHUNK_SIZE * CHUNK_SIZE) |->
              foliage_color_val(((i - 1) \div CHUNK_SIZE) + cx * CHUNK_SIZE,
                                ((i - 1) % CHUNK_SIZE) + cz * CHUNK_SIZE)]),
          outside_blocks |-> g.outside_blocks,
          draws |-> g.draws - rng ]

\* Chunk::new : (chunk, outside_blocks)
Chunk_new(cx, cy, cz) ==
    LET r == Chunk_new_after(0, cx, cy, cz)
    IN  [chunk |-> r.chunk, outside_blocks |-> r.outside_blocks]

(***************************************************************************)
(* SpecGen: Chunk::new called again and again by the main thread and the   *)
(* generation thread                                                       *)
(***************************************************************************)

\* The chunk coordinates generated
GenWindow == {<<0, 0, 0>>, <<-1, 0, 0>>, <<0, 1, 0>>}

\* The threads that call Chunk::new: main in World::new and
\* World::get_chunk, the generation thread for every ChunkTask::Generate
Threads == {"main", "generation"}

\* Number of Chunk::new calls followed
MaxCalls == 4

\* Chunk::new for coordinate c after `before` draws of the calls before it.
\* The value it returns with a generator at the start of the stream is the
\* one `generated` holds for c.
GenerateAfter(before, c) ==
    IF seed_from_u64(before) = 0 THEN generated[c]
    ELSE Chunk_new_after(before, c[1], c[2], c[3])

InitGen ==
    /\ generated = [c \in GenWindow |-> Chunk_new_after(0, c[1], c[2], c[3])]
    /\ chunks = <<>> /\ changes = <<>> /\ chunk_outside_blocks = <<>>
    /\ meshes = <<>> /\ unused_meshes = 0 /\ player_position = <<0, 0, 0>>
    /\ queued_chunks = {} /\ task_channel = <<>> /\ result_channel = <<>>
    /\ pc = "none" /\ moves = 0 /\ edits = 0
    /\ last = NoOp
    /\ AuxIdle
    /\ PaletteIdle

\* A thread calls Chunk::new for coordinate c
ChunkNew(thread, c) ==
    /\ calls < MaxCalls
    /\ LET r == GenerateAfter(drawn, c)
           result == [ chunk |-> r.chunk, foliage_color |-> r.foliage_color,
                       outside_blocks |-> r.outside_blocks ]
       IN  /\ last' = [op |-> "Chunk::new", args |-> <<thread, c>>,
                       result |-> result]
           /\ first_generated' =
                  IF c \in DOMAIN first_generated THEN first_generated
                  ELSE first_generated
                           @@ (c :> [thread |-> thread, result |-> result])
           /\ drawn' = drawn + r.draws
    /\ calls' = calls + 1
    /\ UNCHANGED << generated, chunks, changes, chunk_outside_blocks, meshes,
                    unused_meshes, player_position, queued_chunks,
                    task_channel, result_channel, pc, moves, edits,
                    mesh_visible, previous_vp, entities, seed, paletteVars, call_stack,
                    restVars >>

NextGen == \E thread \in Threads, c \in GenWindow : ChunkNew(thread, c)

SpecGen == InitGen /\ [][NextGen]_vars

(***************************************************************************)
(* SpecPalette: set_block on one palette chunk                             *)
(***************************************************************************)

\* Number of blocks declared on the fly that the writes draw from
MaxCustomBlocks == 2

\* Blocks declared on the fly; numbers no palette of the model holds at Init
CustomBlocks == {U16 + k : k \in 1..MaxCustomBlocks}

\* The blocks written
PaletteBlocks == {AIR, STONE} \cup CustomBlocks

\* The slots written
PaletteSlots == {<<0, 0, 0>>, <<15, 15, 15>>, <<1, 2, 3>>}

\* The slots read back: the written ones and two that are never written
ProbeSlots == PaletteSlots \cup {<<1, 0, 0>>, <<14, 15, 15>>}

\* The chunk a fresh chunk becomes by U16 - 4 calls set_block(<<0,0,0>>, b),
\* one for each block b = 4, 5, .., U16 - 1 in turn: every call appends b
\* and stores its index, so the palette is <<0, 1, .., U16 - 1>> and slot
\* <<0,0,0>> holds index U16 - 1.
CoreChunkPaletteFull(chunk_pos) ==
    [ block_palette |-> SubSeq([i \in 1..U16 |-> i - 1], 1, U16),
      blocks |-> [CoreChunkNew(chunk_pos).blocks EXCEPT ![0] = U16 - 1] ]

InitPaletteFrom(c) ==
    /\ block_palette = c.block_palette
    /\ blocks = c.blocks
    /\ shadow = [p \in ProbeSlots |-> CoreGetBlock(c, p)]
    /\ WorldIdle

\* A freshly created chunk
InitPalette == InitPaletteFrom(CoreChunkNew(<<0, 0, 0>>))

\* A chunk whose palette has grown to U16 entries
InitPaletteFull == InitPaletteFrom(CoreChunkPaletteFull(<<0, 0, 0>>))

PaletteSetBlock(local_pos, block) ==
    LET c == CoreSetBlock(CoreChunk, local_pos, block)
    IN  /\ block_palette' = c.block_palette
        /\ blocks' = c.blocks
        /\ shadow' = [shadow EXCEPT ![local_pos] = block]
        /\ UNCHANGED worldVars

NextPalette ==
    \E local_pos \in PaletteSlots, block \in PaletteBlocks :
        PaletteSetBlock(local_pos, block)

SpecPalette == InitPalette /\ [][NextPalette]_vars

SpecPaletteFull == InitPaletteFull /\ [][NextPalette]_vars

(***************************************************************************)
(* SpecMesh: generate_chunk_mesh and should_occlude on bounded scenes      *)
(***************************************************************************)

\* The chunk coordinate of a world position: div_euclid per axis
ChunkOf(world_pos) ==
    << div_euclid(world_pos[1], CHUNK_SIZE),
       div_euclid(world_pos[2], CHUNK_SIZE),
       div_euclid(world_pos[3], CHUNK_SIZE) >>

\* The local coordinate of a world position: rem_euclid per axis
LocalOf(world_pos) ==
    << rem_euclid(world_pos[1], CHUNK_SIZE),
       rem_euclid(world_pos[2], CHUNK_SIZE),
       rem_euclid(world_pos[3], CHUNK_SIZE) >>

\* The chunk coordinates the model follows: the origin chunk and the six
\* chunks that share a face with it
Window == {<<0, 0, 0>>} \cup {FaceNormal(i) : i \in 0..5}

\* A chunk of Air only, as Chunk::new returns it above the terrain
AirChunk == [is_dirty |-> TRUE, blocks |-> AsVec([i \in 1..NumSlots |-> Air])]

\* NeighbourChunks { n: chunks.get(pos + (0,0,-1)), s: (0,0,1), e: (1,0,0),
\* w: (-1,0,0), u: (0,1,0), d: (0,-1,0) }
NeighbourChunksOf(cs, chunk_pos) ==
    LET get(d) == IF Add3(chunk_pos, d) \in DOMAIN cs
                  THEN Some(cs[Add3(chunk_pos, d)]) ELSE None
    IN  [ n |-> get(<<0, 0, -1>>), s |-> get(<<0, 0, 1>>),
          e |-> get(<<1, 0, 0>>),  w |-> get(<<-1, 0, 0>>),
          u |-> get(<<0, 1, 0>>),  d |-> get(<<0, -1, 0>>) ]

\* Chunk::set_block on the chunk that holds world_pos, starting that chunk
\* as a chunk of Air if the scene does not hold it yet
ScenePlace(cs, world_pos, block) ==
    LET c == ChunkOf(world_pos)
        l == LocalOf(world_pos)
        base == IF c \in DOMAIN cs THEN cs[c] ELSE AirChunk
    IN  (c :> Chunk_set_block(base, l[1], l[2], l[3], block)) @@ cs

\* ScenePlace of block nb on every side i in D of the centre, i = from .. 5
RECURSIVE SceneFill(_, _, _, _, _)
SceneFill(cs, centre, D, nb, from) ==
    IF from > 5 THEN cs
    ELSE SceneFill(IF from \in D
                   THEN ScenePlace(cs, Add3(centre, FaceNormal(from)), nb)
                   ELSE cs,
                   centre, D, nb, from + 1)

\* The block positions of the origin chunk the scenes are built around: one
\* in the interior, one on the -X and +Z boundary
SceneCentres == {<<5, 5, 5>>, <<0, 5, 15>>}

\* The blocks put at the centre, and on its sides
SceneCentreBlocks == {Stone, Glass, PlanksSlabTop}

SceneSideBlocks == {Stone, Glass}

\* A scene: the chunks produced from chunks of Air by Chunk::set_block calls
\* that put cb at the centre and nb on the sides in D; with resident, all of
\* the Window is resident, else only the chunks written to
Scene(centre, cb, D, nb, resident) ==
    LET start == IF resident THEN [c \in Window |-> AirChunk]
                 ELSE (<<0, 0, 0>> :> AirChunk)
    IN  SceneFill(ScenePlace(start, centre, cb), centre, D, nb, 0)

InitMesh ==
    /\ \E centre \in SceneCentres, cb \in SceneCentreBlocks,
          D \in SUBSET (0..5), nb \in SceneSideBlocks, resident \in BOOLEAN :
          chunks = Scene(centre, cb, D, nb, resident)
    /\ last = NoOp
    /\ LoopIdle
    /\ PaletteIdle

\* generate_chunk_mesh of the origin chunk with the neighbours its world has
MeshGenerate ==
    /\ last' = [ op |-> "generate_chunk_mesh", args |-> <<0, 0, 0>>,
                 result |-> generate_chunk_mesh(chunks[<<0, 0, 0>>],
                                NeighbourChunksOf(chunks, <<0, 0, 0>>)) ]
    /\ UNCHANGED <<chunks, loopVars, paletteVars>>

NextMesh == MeshGenerate

SpecMesh == InitMesh /\ [][NextMesh]_vars

(***************************************************************************)
(* SpecVisible: update_mesh_visibility on the origin chunk and its six     *)
(* neighbours                                                              *)
(***************************************************************************)

\* A chunk of Stone only, as Chunk::new returns it deep under the terrain
StoneChunk ==
    [is_dirty |-> TRUE, blocks |-> AsVec([i \in 1..NumSlots |-> Stone])]

\* What the world holds on a side of the origin chunk
NeighbourKinds == {"absent", "air", "stone"}

\* The world whose origin chunk has, on side i, the neighbour of kind k[i]
VisibleScene(k) ==
    LET resident == {i \in 0..5 : k[i] # "absent"}
        side(c) == CHOOSE i \in resident : FaceNormal(i) = c
    IN  [c \in {<<0, 0, 0>>} \cup {FaceNormal(i) : i \in resident} |->
            IF c = <<0, 0, 0>> THEN AirChunk
            ELSE IF k[side(c)] = "stone" THEN StoneChunk ELSE AirChunk]

\* A view-projection matrix, as the chunk boxes that lie inside its frustum
ViewProjections ==
    { [inside |-> Window], [inside |-> Window \ {<<0, 0, 1>>}],
      [inside |-> {<<1, 0, 0>>}] }

\* aabb_in_frustum(min, max, &extract_frustum_planes(vp)) for the box of a
\* chunk
aabb_in_frustum(chunk_pos, vp) == chunk_pos \in vp.inside

\* World::update_mesh_visibility : [mesh_visible, previous_vp]
World_update_mesh_visibility(w, vp) ==
    IF w.previous_vp = Some(vp) THEN w
    ELSE [ previous_vp |-> Some(vp),
           mesh_visible |->
               {c \in DOMAIN w.chunks :
                   /\ aabb_in_frustum(c, vp)
                   /\ ~NeighbourChunks_all_side_full(
                          NeighbourChunksOf(w.chunks, c))},
           chunks |-> w.chunks ]

InitVisible ==
    /\ \E k \in [0..5 -> NeighbourKinds] : chunks = VisibleScene(k)
    /\ last = NoOp
    /\ LoopIdle
    /\ PaletteIdle

UpdateMeshVisibility(vp) ==
    /\ LET w == World_update_mesh_visibility(
                    [previous_vp |-> previous_vp, mesh_visible |-> mesh_visible,
                     chunks |-> chunks], vp)
       IN  /\ previous_vp' = w.previous_vp
           /\ mesh_visible' = w.mesh_visible
    /\ UNCHANGED << chunks, last, generated, changes, chunk_outside_blocks,
                    meshes, unused_meshes, player_position, queued_chunks,
                    task_channel, result_channel, pc, moves, edits, calls,
                    drawn, first_generated, entities, seed, paletteVars, call_stack,
                    restVars >>

NextVisible == \E vp \in ViewProjections : UpdateMeshVisibility(vp)

SpecVisible == InitVisible /\ [][NextVisible]_vars

(***************************************************************************)
(* SpecOcclude: should_occlude on the classes of pairs of blocks           *)
(***************************************************************************)

\* The blocks classified: every class, several blocks of each
OccludeBlocks ==
    {Air, Grass, Dirt, Stone, OakLog, Leaves, Glass, Bedrock,
     PlanksSlabTop, StoneStairsN}

InitOcclude == WorldIdle /\ PaletteIdle

\* should_occlude(block.block_type(), neighbour) as generate_chunk_mesh
\* calls it, for block a and a neighbouring block b
Occlude(a, b) ==
    /\ last' = [ op |-> "should_occlude", args |-> <<a, b>>,
                 result |-> should_occlude(block_type(a), block_type(b)) ]
    /\ UNCHANGED <<chunks, loopVars, paletteVars>>

NextOcclude == \E a \in OccludeBlocks, b \in OccludeBlocks : Occlude(a, b)

SpecOcclude == InitOcclude /\ [][NextOcclude]_vars

(***************************************************************************)
(* Spec: the world container, the generation worker and the main loop      *)
(*                                                                         *)
(* The model follows the chunks of the WorldWindow.  A chunk outside it is  *)
(* never resident in the model: the player's block operations stay inside, *)
(* and requests, tasks and results for other coordinates are left out.     *)
(* Chunk::new is a function of the coordinate (the seed is fixed), so a    *)
(* ChunkResult is represented by its coordinate.                           *)
(***************************************************************************)

\* The chunk coordinates the world model follows: the origin chunk, the
\* chunk on its -X side and the chunk above it
WorldWindow == {<<0, 0, 0>>, <<-1, 0, 0>>, <<0, 1, 0>>}

\* RENDER_DISTANCE
RENDER_DISTANCE == 8

\* CHUNK_RADIUS = RENDER_DISTANCE - 1
CHUNK_RADIUS == RENDER_DISTANCE - 1

\* The reach of the player's ray: cast_ray(world, camera_pos, forward, 5.0)
REACH == 5

\* Chunk::new(x, y, z, noise, cave_noise, biome_noise) at a coordinate of
\* the WorldWindow
Generate(c) == generated[c]

\* HashMap::extend : the entries of n are inserted into m, replacing
Extend(m, n) == n @@ m

\* The World as a record of the three maps its block operations work on
TheWorld ==
    [ chunks |-> chunks, changes |-> changes,
      chunk_outside_blocks |-> chunk_outside_blocks ]

\* World::chunk_exists
World_chunk_exists(w, c) == c \in DOMAIN w.chunks

\* World::get_chunk : entry(c).or_insert_with(Chunk::new), the outside blocks
\* of a chunk generated here extend the overspill table
World_get_chunk(w, c) ==
    IF c \in DOMAIN w.chunks THEN w
    ELSE LET res == Generate(c)
         IN  [ w EXCEPT !.chunk_outside_blocks = Extend(@, res.outside_blocks),
                        !.chunks = (c :> res.chunk) @@ @ ]

\* World::get_block : [world, chunk, local, block]
World_get_block(w, x, y, z) ==
    LET c  == << div_euclid(x, CHUNK_SIZE), div_euclid(y, CHUNK_SIZE),
                 div_euclid(z, CHUNK_SIZE) >>
        w1 == World_get_chunk(w, c)
        l  == << rem_euclid(x, CHUNK_SIZE), rem_euclid(y, CHUNK_SIZE),
                 rem_euclid(z, CHUNK_SIZE) >>
    IN  [ world |-> w1, chunk |-> c, local |-> l,
          block |-> Chunk_get_block(w1.chunks[c], l[1], l[2], l[3]) ]

\* A World::set_block whose six tests all fail
dirtied_neighbours_none(local) == <<>>

\* World::set_block, the six tests after the write: the offsets of the
\* neighbours whose side the local position lies on, in the order tested
dirtied_neighbours(local) ==
    LET side(cond, d) == IF cond THEN <<d>> ELSE <<>>
    IN  side(local[3] = 0, <<0, 0, -1>>)
        \o side(local[3] = CHUNK_SIZE - 1, <<0, 0, 1>>)
        \o side(local[1] = 0, <<-1, 0, 0>>)
        \o side(local[1] = CHUNK_SIZE - 1, <<1, 0, 0>>)
        \o side(local[2] = 0, <<0, -1, 0>>)
        \o side(local[2] = CHUNK_SIZE - 1, <<0, 1, 0>>)

\* self.get_chunk(c + d).is_dirty = true for the offsets ds[from ..]
RECURSIVE mark_dirty(_, _, _, _)
mark_dirty(w, c, ds, from) ==
    IF from > Len(ds) THEN w
    ELSE LET n  == Add3(c, ds[from])
             w1 == World_get_chunk(w, n)
         IN  mark_dirty([w1 EXCEPT !.chunks[n].is_dirty = TRUE], c, ds, from + 1)

\* World::set_block : [world, chunk, local]
World_set_block(w, x, y, z, block) ==
    LET c  == << div_euclid(x, CHUNK_SIZE), div_euclid(y, CHUNK_SIZE),
                 div_euclid(z, CHUNK_SIZE) >>
        w1 == World_get_chunk(w, c)
        l  == << rem_euclid(x, CHUNK_SIZE), rem_euclid(y, CHUNK_SIZE),
                 rem_euclid(z, CHUNK_SIZE) >>
        w2 == [ w1 EXCEPT
                  !.chunks[c] = Chunk_set_block(@, l[1], l[2], l[3], block),
                  !.changes = (<<c, l>> :> block) @@ @ ]
    IN  [ world |-> mark_dirty(w2, c, dirtied_neighbours(l), 1),
          chunk |-> c, local |-> l ]

\* A World::add_chunk that applies the change log first and the overspill
\* blocks second
add_chunk_changes_first(w, c, chunk, outside_blocks) ==
    LET key(i) == <<c, SlotPos(i - 1)>>
        in_chunk(k) == k[1] = c /\ \A a \in 1..3 : k[2][a] \in 0..(CHUNK_SIZE - 1)
        slot(k) == SlotIndex(k[2][1], k[2][2], k[2][3]) + 1
        spill_slots == {slot(k) : k \in {k \in DOMAIN w.chunk_outside_blocks : in_chunk(k)}}
        change_slots == {slot(k) : k \in {k \in DOMAIN w.changes : in_chunk(k)}}
        merged == [ is_dirty |-> chunk.is_dirty \/ spill_slots # {} \/ change_slots # {},
                    blocks |-> AsVec([i \in 1..NumSlots |->
                        IF i \in spill_slots THEN w.chunk_outside_blocks[key(i)]
                        ELSE IF i \in change_slots THEN w.changes[key(i)]
                        ELSE chunk.blocks[i]]) ]
        kept == {k \in DOMAIN w.chunk_outside_blocks : ~in_chunk(k)}
    IN  [ w EXCEPT
            !.chunk_outside_blocks =
                Extend([k \in kept |-> w.chunk_outside_blocks[k]], outside_blocks),
            !.chunks = (c :> merged) @@ @ ]

\* World::add_chunk.  Slot by slot: a block of the overspill table is written
\* and its entry removed, then a block of the change log is written; then
\* the outside blocks of the chunk extend the table and the chunk is inserted
World_add_chunk(w, c, chunk, outside_blocks) ==
    LET key(i) == <<c, SlotPos(i - 1)>>
        in_chunk(k) == k[1] = c /\ \A a \in 1..3 : k[2][a] \in 0..(CHUNK_SIZE - 1)
        slot(k) == SlotIndex(k[2][1], k[2][2], k[2][3]) + 1
        spill_slots == {slot(k) : k \in {k \in DOMAIN w.chunk_outside_blocks : in_chunk(k)}}
        change_slots == {slot(k) : k \in {k \in DOMAIN w.changes : in_chunk(k)}}
        spilled(i) == i \in spill_slots
        changed(i) == i \in change_slots
        merged == [ is_dirty |-> chunk.is_dirty \/ spill_slots # {} \/ change_slots # {},
                    blocks |-> AsVec([i \in 1..NumSlots |->
                        IF changed(i) THEN w.changes[key(i)]
                        ELSE IF spilled(i) THEN w.chunk_outside_blocks[key(i)]
                        ELSE chunk.blocks[i]]) ]
        kept == {k \in DOMAIN w.chunk_outside_blocks : ~in_chunk(k)}
    IN  [ w EXCEPT
            !.chunk_outside_blocks =
                Extend([k \in kept |-> w.chunk_outside_blocks[k]], outside_blocks),
            !.chunks = (c :> merged) @@ @ ]

\* World::update, the retain test: distance_squared(pos, player_pos / 16)
\* <= RENDER_DISTANCE^2, both sides scaled by CHUNK_SIZE^2
InRenderDistance(c, player_pos) ==
    LET d(a) == CHUNK_SIZE * c[a] - player_pos[a]
    IN  d(1) * d(1) + d(2) * d(2) + d(3) * d(3)
            <= RENDER_DISTANCE * RENDER_DISTANCE * CHUNK_SIZE * CHUNK_SIZE

\* World::update, before the entities: chunks.retain
World_update_chunks(cs, player_pos) ==
    LET kept == {c \in DOMAIN cs : InRenderDistance(c, player_pos)}
    IN  [c \in kept |-> cs[c]]

\* The chunk coordinates of the WorldWindow in the order of the three loops
\* of request_chunks_around_player and of World::new: x, then y, then z
WindowOrder == << <<-1, 0, 0>>, <<0, 0, 0>>, <<0, 1, 0>> >>

\* request_chunks_around_player : the coordinates a task is sent for, in the
\* order sent
request_chunks_around_player(player_pos, w, queued) ==
    LET player_chunk == << div_euclid(player_pos[1], CHUNK_SIZE),
                           div_euclid(player_pos[2], CHUNK_SIZE),
                           div_euclid(player_pos[3], CHUNK_SIZE) >>
        wanted(c) ==
            LET o == <<c[1] - player_chunk[1], c[2] - player_chunk[2],
                       c[3] - player_chunk[3]>>
            IN  /\ \A a \in 1..3 : Abs(o[a]) <= CHUNK_RADIUS
                /\ o[1] * o[1] + o[2] * o[2] + o[3] * o[3]
                       <= CHUNK_RADIUS * CHUNK_RADIUS
                /\ ~World_chunk_exists(w, c)
                /\ c \notin queued
    IN  SelectSeq(WindowOrder, wanted)

\* generate_meshes : the chunks a mesh is generated for
MeshedChunks(cs) ==
    {c \in DOMAIN cs :
        /\ cs[c].is_dirty
        /\ ~Chunk_is_empty(cs[c])
        /\ ~NeighbourChunks_all_side_full(NeighbourChunksOf(cs, c))}

\* Mesh : the names of the vertex and index buffers in the GPU.  The data
\* uploaded by Mesh::new and Mesh::update lies outside the program's memory
\* and is not followed here (SpecMesh checks generate_chunk_mesh itself)
Mesh == [buffers |-> "gpu"]

\* World::new, over the coordinates of the WorldWindow: every chunk is generated
\* and inserted as generated, the outside blocks extend the overspill table
RECURSIVE World_new_outside_blocks(_, _)
World_new_outside_blocks(gen, upto) ==
    IF upto = 0 THEN EmptyMap
    ELSE Extend(World_new_outside_blocks(gen, upto - 1),
                gen[WindowOrder[upto]].outside_blocks)

\* The number of teleports and of block edits a behaviour of Spec makes
MaxMoves == 3

MaxEdits == 1

\* Player::new(vec3(0.0, 100.0, 0.0))
Spawn == <<0, 100, 0>>

\* The positions the player is moved to: one in the origin chunk, one so
\* far away that every chunk of the WorldWindow is out of render distance
Home == <<2, 3, 3>>

Far == <<1000, 100, 0>>

PlayerPositions == {Home, Far}

\* The world positions the player queries and edits, and the blocks placed
EditPositions == {<<5, 5, 5>>, <<0, 5, 5>>, <<-1, 5, 5>>}

EditBlocks == {Dirt}

\* The position is within the reach of the player's ray
InReach(p) ==
    LET d(a) == p[a] - player_position[a]
    IN  d(1) * d(1) + d(2) * d(2) + d(3) * d(3) <= REACH * REACH

Init ==
    /\ generated = [c \in WorldWindow |-> Chunk_new(c[1], c[2], c[3])]
    /\ chunks = [c \in WorldWindow |-> generated[c].chunk]
    /\ changes = EmptyMap
    /\ chunk_outside_blocks = World_new_outside_blocks(generated, Len(WindowOrder))
    /\ meshes = EmptyMap
    /\ unused_meshes = 0
    /\ player_position = Spawn
    /\ queued_chunks = {}
    /\ task_channel = <<>>
    /\ result_channel = <<>>
    /\ pc = "events"
    /\ moves = 0
    /\ edits = 0
    /\ last = NoOp
    /\ PaletteIdle
    /\ AuxIdle

\* The variables of the three maps take the values of the world record w
SetWorld(w) ==
    /\ chunks' = w.chunks
    /\ changes' = w.changes
    /\ chunk_outside_blocks' = w.chunk_outside_blocks

\* main: the event loop handles "/tp x y z"
Teleport(pos) ==
    /\ pc = "events"
    /\ moves < MaxMoves
    /\ pos # player_position
    /\ player_position' = pos
    /\ moves' = moves + 1
    /\ pc' = "request"
    /\ UNCHANGED << generated, chunks, changes, chunk_outside_blocks, meshes,
                    unused_meshes, queued_chunks, task_channel,
                    result_channel, edits, last, paletteVars,
                    auxVars >>

\* main: a frame whose events do not move the player
NoTeleport ==
    /\ pc = "events"
    /\ pc' = "request"
    /\ UNCHANGED << generated, moves, chunks, changes, chunk_outside_blocks,
                    meshes, unused_meshes, player_position, queued_chunks,
                    task_channel, result_channel, edits, last, paletteVars,
                    auxVars >>

\* main: request_chunks_around_player(...)
RequestChunks ==
    /\ pc = "request"
    /\ LET sent == request_chunks_around_player(player_position, TheWorld,
                                                queued_chunks)
       IN  /\ task_channel' = task_channel \o sent
           /\ queued_chunks' = queued_chunks \cup {sent[i] : i \in 1..Len(sent)}
    /\ pc' = "drain"
    /\ UNCHANGED << generated, moves, chunks, changes, chunk_outside_blocks,
                    meshes, unused_meshes, player_position, result_channel,
                    edits, last, paletteVars,
                    auxVars >>

\* world.add_chunk for the results rs[from ..]
RECURSIVE add_results(_, _, _)
add_results(w, rs, from) ==
    IF from > Len(rs) THEN w
    ELSE add_results(World_add_chunk(w, rs[from], Generate(rs[from]).chunk,
                                     Generate(rs[from]).outside_blocks),
                     rs, from + 1)

\* main: queued_chunks.retain(not resident), then every result received is
\* added to the world
DrainResults ==
    /\ pc = "drain"
    /\ queued_chunks' = {c \in queued_chunks : ~World_chunk_exists(TheWorld, c)}
    /\ SetWorld(add_results(TheWorld, result_channel, 1))
    /\ result_channel' = <<>>
    /\ pc' = "update"
    /\ UNCHANGED << generated, moves, meshes, unused_meshes, player_position,
                    task_channel, edits, last, paletteVars,
                    auxVars >>

\* World::update up to the entities: chunks out of render distance are
\* dropped and the meshes of dropped chunks move to unused_meshes
WorldUpdate ==
    /\ pc = "update"
    /\ chunks' = World_update_chunks(chunks, player_position)
    /\ meshes' = [c \in DOMAIN meshes \cap DOMAIN chunks' |-> meshes[c]]
    /\ unused_meshes' =
           unused_meshes + Cardinality(DOMAIN meshes \ DOMAIN chunks')
    /\ pc' = "entities"
    /\ UNCHANGED << generated, moves, changes, chunk_outside_blocks,
                    player_position, queued_chunks, task_channel,
                    result_channel, edits, last, paletteVars,
                    auxVars >>

\* Player::update : a block query at a position in reach
PlayerGetBlock(p) ==
    /\ pc = "entities"
    /\ InReach(p)
    /\ LET r == World_get_block(TheWorld, p[1], p[2], p[3])
       IN  /\ SetWorld(r.world)
           /\ last' = [ op |-> "get_block", args |-> p,
                        result |-> [chunk |-> r.chunk, local |-> r.local,
                                    block |-> r.block] ]
    /\ pc' = "meshes"
    /\ UNCHANGED << generated, moves, meshes, unused_meshes, player_position,
                    queued_chunks, task_channel, result_channel, edits,
                    paletteVars,
                    auxVars >>

\* Player::update : a block placed (or, with Air, broken) at a position in
\* reach
PlayerSetBlock(p, block) ==
    /\ pc = "entities"
    /\ InReach(p)
    /\ edits < MaxEdits
    /\ LET r == World_set_block(TheWorld, p[1], p[2], p[3], block)
       IN  /\ SetWorld(r.world)
           /\ last' = [ op |-> "set_block", args |-> p,
                        result |-> [chunk |-> r.chunk, local |-> r.local,
                                    block |-> block] ]
    /\ edits' = edits + 1
    /\ pc' = "meshes"
    /\ UNCHANGED << generated, moves, meshes, unused_meshes, player_position,
                    queued_chunks, task_channel, result_channel,
                    paletteVars,
                    auxVars >>

\* Player::update without a block operation
PlayerIdle ==
    /\ pc = "entities"
    /\ pc' = "meshes"
    /\ UNCHANGED << generated, moves, chunks, changes, chunk_outside_blocks,
                    meshes, unused_meshes, player_position, queued_chunks,
                    task_channel, result_channel, edits, last, paletteVars,
                    auxVars >>

\* World::generate_meshes : every dirty chunk that is not empty and not
\* enclosed is meshed from the chunks as they are, its flag cleared, and its
\* mesh updated, taken from unused_meshes, or created
MeshPhase ==
    /\ pc = "meshes"
    /\ LET done == MeshedChunks(chunks)
           fresh == done \ DOMAIN meshes
       IN  /\ chunks' = [c \in DOMAIN chunks |->
                            IF c \in done THEN [chunks[c] EXCEPT !.is_dirty = FALSE]
                            ELSE chunks[c]]
           /\ meshes' = [c \in DOMAIN meshes \cup done |->
                            IF c \in done THEN Mesh ELSE meshes[c]]
           /\ unused_meshes' =
                  IF Cardinality(fresh) >= unused_meshes THEN 0
                  ELSE unused_meshes - Cardinality(fresh)
    /\ pc' = "events"
    /\ last' = NoOp
    /\ UNCHANGED << generated, moves, changes, chunk_outside_blocks,
                    player_position, queued_chunks, task_channel,
                    result_channel, edits, paletteVars,
                    calls, drawn, first_generated, entities, seed,
                    call_stack, server >>

\* World::generate_meshes where the data of the meshes is not followed
GenerateMeshes == MeshPhase /\ UNCHANGED <<mesh_data, mesh_visible, previous_vp>>

\* World::generate_meshes, the data Mesh::new and Mesh::update upload: for
\* every chunk meshed, generate_chunk_mesh of the chunk and its neighbours
\* as they are; the data of the other meshes stays
uploaded(cs, ms, data) ==
    [c \in DOMAIN ms \cup MeshedChunks(cs) |->
        IF c \in MeshedChunks(cs)
        THEN generate_chunk_mesh(cs[c], NeighbourChunksOf(cs, c))
        ELSE data[c]]

\* World::generate_meshes with the data of the meshes
GenerateMeshesData ==
    /\ MeshPhase
    /\ mesh_data' = uploaded(chunks, meshes, mesh_data)
    /\ UNCHANGED <<mesh_visible, previous_vp>>

\* The generation thread: task_receiver.recv(), Chunk::new,
\* result_sender.send.  The thread shares only the two channels with the
\* main loop, so its steps commute with every step of the main loop but the
\* send of RequestChunks and the receive of DrainResults: they are taken
\* between the two
Worker ==
    /\ pc = "drain"
    /\ task_channel # <<>>
    /\ result_channel' = Append(result_channel, Head(task_channel))
    /\ task_channel' = Tail(task_channel)
    /\ UNCHANGED << generated, moves, chunks, changes, chunk_outside_blocks,
                    meshes, unused_meshes, player_position, queued_chunks,
                    pc, edits, last, paletteVars,
                    auxVars >>

Next ==
    \/ \E pos \in PlayerPositions : Teleport(pos)
    \/ NoTeleport
    \/ RequestChunks
    \/ DrainResults
    \/ WorldUpdate
    \/ \E p \in EditPositions : PlayerGetBlock(p)
    \/ \E p \in EditPositions, block \in EditBlocks : PlayerSetBlock(p, block)
    \/ PlayerIdle
    \/ GenerateMeshes
    \/ Worker

Spec == Init /\ [][Next]_vars

(***************************************************************************)
(* SpecRange: the main loop with the player teleported to positions at the *)
(* rim of the render distance of the chunks followed                       *)
(***************************************************************************)

\* In chunk (8, 0, 0), on its corner: 8 chunks from the origin chunk
Rim == <<128, 0, 0>>

\* In chunk (8, 0, 0), at block 15 of 16 along x
Edge == <<143, 3, 3>>

RangePositions == {Home, Rim, Edge}

NextRange ==
    \/ \E pos \in RangePositions : Teleport(pos)
    \/ NoTeleport
    \/ RequestChunks
    \/ DrainResults
    \/ WorldUpdate
    \/ PlayerIdle
    \/ GenerateMeshes
    \/ Worker

SpecRange == Init /\ [][NextRange]_vars

(***************************************************************************)
(* SpecMerge: the main loop with the player editing a slot of chunk        *)
(* (0, 0, 0) that the tree of chunk (-1, 0, 0) spills a Leaves block into  *)
(***************************************************************************)

\* Local (0, 5, 6) of chunk (0, 0, 0), an overspill target of chunk (-1, 0, 0)
MergePositions == {<<0, 5, 6>>}

NextMerge ==
    \/ \E pos \in PlayerPositions : Teleport(pos)
    \/ NoTeleport
    \/ RequestChunks
    \/ DrainResults
    \/ WorldUpdate
    \/ \E p \in MergePositions : PlayerGetBlock(p)
    \/ \E p \in MergePositions, block \in EditBlocks : PlayerSetBlock(p, block)
    \/ PlayerIdle
    \/ GenerateMeshes
    \/ Worker

SpecMerge == Init /\ [][NextMerge]_vars

(***************************************************************************)
(* SpecReload: the main loop with the player going back and forth between  *)
(* the origin chunk and a position from which chunk (-1, 0, 0) is in       *)
(* render distance and chunk (0, 0, 0) is not                              *)
(***************************************************************************)

\* 8.5 chunks from the corner of chunk (0, 0, 0) and 7.5 from the corner of
\* chunk (-1, 0, 0)
Aside == <<-136, 0, 0>>

ReloadPositions == {Home, Aside}

\* The world of World::new in the first frame after "/tp -136 0 0", when
\* World::update has dropped the chunks out of render distance and
\* generate_meshes is about to run.  No coordinate of the WorldWindow is
\* within CHUNK_RADIUS of the player's chunk (-9, 0, 0), so no task has
\* been sent.
InitReload ==
    /\ generated = [c \in WorldWindow |-> Chunk_new(c[1], c[2], c[3])]
    /\ chunks = World_update_chunks([c \in WorldWindow |-> generated[c].chunk],
                                    Aside)
    /\ changes = EmptyMap
    /\ chunk_outside_blocks = World_new_outside_blocks(generated, Len(WindowOrder))
    /\ meshes = EmptyMap
    /\ unused_meshes = 0
    /\ player_position = Aside
    /\ queued_chunks = {}
    /\ task_channel = <<>>
    /\ result_channel = <<>>
    /\ pc = "meshes"
    /\ moves = 0
    /\ edits = 0
    /\ last = NoOp
    /\ PaletteIdle
    /\ AuxIdle

NextReload ==
    \/ \E pos \in ReloadPositions : Teleport(pos)
    \/ NoTeleport
    \/ RequestChunks
    \/ DrainResults
    \/ WorldUpdate
    \/ PlayerIdle
    \/ GenerateMeshes
    \/ Worker

SpecReload == InitReload /\ [][NextReload]_vars

(***************************************************************************)
(* SpecView: the main loop with update_mesh_visibility, which main calls   *)
(* between World::update and generate_meshes                               *)
(***************************************************************************)

\* The view-projection matrices of a camera at the player's position: the
\* matrix is player.projection * look_at_rh(camera_pos, ...), so it differs
\* with the position; turning the camera changes the chunk boxes inside the
\* frustum
ViewsAt(pos) == {[inside |-> v.inside, eye |-> pos] : v \in ViewProjections}

\* main: world.update_mesh_visibility(vp); world.generate_meshes(&app.gl)
VisibilityAndMeshes(vp) ==
    /\ MeshPhase
    /\ LET w == World_update_mesh_visibility(
                    [previous_vp |-> previous_vp, mesh_visible |-> mesh_visible,
                     chunks |-> chunks], vp)
       IN  /\ previous_vp' = w.previous_vp
           /\ mesh_visible' = w.mesh_visible
    /\ UNCHANGED mesh_data

NextView ==
    \/ \E pos \in PlayerPositions : Teleport(pos)
    \/ NoTeleport
    \/ RequestChunks
    \/ DrainResults
    \/ WorldUpdate
    \/ PlayerIdle
    \/ \E vp \in ViewsAt(player_position) : VisibilityAndMeshes(vp)
    \/ Worker

SpecView == Init /\ [][NextView]_vars

(***************************************************************************)
(* SpecLoad: the main loop and the generation thread with the player at    *)
(* rest, under the fairness of a loop that goes on frame after frame and a *)
(* thread that handles every task it is sent                               *)
(***************************************************************************)

\* In chunk (7, 0, 0), at block 15 of 16 along x, y and z: 7 chunks from
\* the origin chunk
Corner == <<127, 15, 15>>

LoadPositions == {Home, Corner}

\* request_chunks_around_player, the test on the coordinate alone: within
\* CHUNK_RADIUS of the chunk that holds the player
InChunkRadius(c, player_pos) ==
    LET o(a) == c[a] - div_euclid(player_pos[a], CHUNK_SIZE)
    IN  /\ \A a \in 1..3 : Abs(o(a)) <= CHUNK_RADIUS
        /\ o(1) * o(1) + o(2) * o(2) + o(3) * o(3)
               <= CHUNK_RADIUS * CHUNK_RADIUS

NextLoad ==
    \/ \E pos \in LoadPositions : Teleport(pos)
    \/ NoTeleport
    \/ RequestChunks
    \/ DrainResults
    \/ WorldUpdate
    \/ PlayerIdle
    \/ GenerateMeshes
    \/ Worker

\* The points of a frame of the main loop
Phases == {"events", "request", "drain", "update", "entities", "meshes"}

\* The main loop passes from a point of the frame to the next one: at
\* every point one of its steps is enabled, and each of them moves pc
Advance == \E q \in Phases : q # pc /\ pc' = q

\* The loop runs a frame after the other, none of its calls blocking
\* (try_recv); the thread blocks in recv() and handles the task it
\* receives (Worker is taken between the send and the receive of the main
\* loop only, hence the strong fairness)
SpecLoad == Init /\ [][NextLoad]_vars /\ WF_pc(Advance) /\ SF_vars(Worker)

(***************************************************************************)
(* SpecStale: the main loop over chunks of Air in which the player has     *)
(* placed Stone blocks, with the data of the meshes followed               *)
(***************************************************************************)

\* The positions of EditPositions in an order: inside chunk (0, 0, 0), on
\* its -X face, and across that face in chunk (-1, 0, 0)
StalePositions == <<<<5, 5, 5>>, <<0, 5, 5>>, <<-1, 5, 5>>>>

\* The blocks the player places and, with Air, breaks
StaleBlocks == {Air, Stone}

\* The world after World::set_block of bs[i] at StalePositions[i] for the
\* i from index from on with bs[i] not Air
RECURSIVE PlacedWorld(_, _, _)
PlacedWorld(w, bs, from) ==
    IF from > Len(StalePositions) THEN w
    ELSE LET p == StalePositions[from]
             w1 == IF bs[from] = Air THEN w
                   ELSE World_set_block(w, p[1], p[2], p[3], bs[from]).world
         IN  PlacedWorld(w1, bs, from + 1)

\* World::new over chunks of Air, then the blocks placed
InitStale ==
    /\ generated = [c \in WorldWindow |->
                       [chunk |-> AirChunk, outside_blocks |-> EmptyMap]]
    /\ \E bs \in [1..Len(StalePositions) -> StaleBlocks] :
           LET w == PlacedWorld([ chunks |-> [c \in WorldWindow |-> AirChunk],
                                  changes |-> EmptyMap,
                                  chunk_outside_blocks |-> EmptyMap ], bs, 1)
           IN  /\ chunks = w.chunks
               /\ changes = w.changes
               /\ chunk_outside_blocks = w.chunk_outside_blocks
    /\ meshes = EmptyMap
    /\ unused_meshes = 0
    /\ player_position = Spawn
    /\ queued_chunks = {}
    /\ task_channel = <<>>
    /\ result_channel = <<>>
    /\ pc = "events"
    /\ moves = 0
    /\ edits = 0
    /\ last = NoOp
    /\ PaletteIdle
    /\ AuxIdle

NextStale ==
    \/ \E pos \in PlayerPositions : Teleport(pos)
    \/ NoTeleport
    \/ RequestChunks
    \/ DrainResults
    \/ WorldUpdate
    \/ \E i \in 1..Len(StalePositions), block \in StaleBlocks :
           PlayerSetBlock(StalePositions[i], block)
    \/ PlayerIdle
    \/ GenerateMeshesData
    \/ Worker

SpecStale == InitStale /\ [][NextStale]_vars

(***************************************************************************)
(* SpecCollide: player_collision_mask in a chunk of Air with Stone blocks  *)
(* around the player.  Lengths are in fortieths of a block.                *)
(***************************************************************************)

\* The number of length units in one block
UNIT == 40

\* Player::width, 0.6
PLAYER_WIDTH == 24

\* Player::height, 1.8
PLAYER_HEIGHT == 72

\* [min, max] of a cuboid of the model definitions (assets/models.json)
cube_bounds(cube) ==
    CASE cube = "full" -> << <<0, 0, 0>>, <<UNIT, UNIT, UNIT>> >>
      [] cube = "slab" -> << <<0, 0, 0>>, <<UNIT, UNIT \div 2, UNIT>> >>
      [] cube = "stairs_lower" -> << <<0, 0, 0>>, <<UNIT, UNIT \div 2, UNIT>> >>
      [] cube = "stairs_upper" ->
             << <<0, UNIT \div 2, 0>>, <<UNIT, UNIT, UNIT \div 2>> >>

\* collision_aabb : the boxes overlap or touch on all three axes
collision_aabb(min_a, max_a, min_b, max_b) ==
    \A a \in 1..3 : min_a[a] <= max_b[a] /\ max_a[a] >= min_b[a]

\* Block::is_solid_at
Block_is_solid_at(block, local_pos, player_width, player_height) ==
    LET half == player_width \div 2
        cs == cubes(block)
    IN  \E k \in 1..Len(cs) :
            collision_aabb(
                <<local_pos[1] - half, local_pos[2], local_pos[3] - half>>,
                <<local_pos[1] + half, local_pos[2] + player_height,
                  local_pos[3] + half>>,
                cube_bounds(cs[k])[1], cube_bounds(cs[k])[2])

\* World::is_player_colliding, in a world whose chunks around the player
\* are resident
World_is_player_colliding(w, player_pos, player_width, player_height) ==
    LET half_w == player_width \div 2
        x_min == div_euclid(player_pos[1] - half_w, UNIT)
        y_min == div_euclid(player_pos[2], UNIT)
        z_min == div_euclid(player_pos[3] - half_w, UNIT)
        x_max == div_euclid(player_pos[1] + half_w, UNIT)
        y_max == div_euclid(player_pos[2] + player_height, UNIT)
        z_max == div_euclid(player_pos[3] + half_w, UNIT)
    IN  \E x \in x_min..x_max, y \in y_min..y_max, z \in z_min..z_max :
            Block_is_solid_at(World_get_block(w, x, y, z).block,
                              << player_pos[1] - x * UNIT,
                                 player_pos[2] - y * UNIT,
                                 player_pos[3] - z * UNIT >>,
                              player_width, player_height)

\* One test of all three axes at once: every axis is flagged when the new
\* position collides
player_collision_mask_combined(w, old_pos, new_pos, player_width, player_height) ==
    LET hit == World_is_player_colliding(w, new_pos, player_width, player_height)
    IN  [ collided |-> <<hit, hit, hit>>,
          pos |-> IF hit THEN old_pos ELSE new_pos ]

\* World::player_collision_mask : the flags, and pos as the function leaves it
World_player_collision_mask(w, old_pos, new_pos, player_width, player_height) ==
    LET hit(p) == World_is_player_colliding(w, p, player_width, player_height)
        x == hit(<<new_pos[1], old_pos[2], old_pos[3]>>)
        px == IF x THEN old_pos[1] ELSE new_pos[1]
        y == hit(<<px, new_pos[2], old_pos[3]>>)
        py == IF y THEN old_pos[2] ELSE new_pos[2]
        z == hit(<<px, py, new_pos[3]>>)
        pz == IF z THEN old_pos[3] ELSE new_pos[3]
    IN  [collided |-> <<x, y, z>>, pos |-> <<px, py, pz>>]

\* The block positions that hold Stone in some scene: on the +X side of the
\* player's block, on its +Z side, on the diagonal between the two, and
\* under it
WallBlocks == {<<6, 5, 5>>, <<5, 5, 6>>, <<6, 5, 6>>, <<5, 4, 5>>}

\* The origin chunk, of Air, with Stone at the positions in walls
RECURSIVE CollideScene(_)
CollideScene(walls) ==
    IF walls = {} THEN (<<0, 0, 0>> :> AirChunk)
    ELSE LET b == CHOOSE b \in walls : TRUE
         IN  ScenePlace(CollideScene(walls \ {b}), b, Stone)

\* The player's feet at the start: in block (5, 5, 5), a tenth of a block
\* above its floor
Stand == <<220, 204, 220>>

\* The displacements of a move, per axis
Displacements == {<<dx, dy, dz>> : dx \in {-8, 0, 8, 16}, dy \in {-8, 0},
                                   dz \in {-8, 0, 8, 16}}

\* Number of moves followed
MaxSteps == 1

InitCollide ==
    /\ \E walls \in SUBSET WallBlocks : chunks = CollideScene(walls)
    /\ generated = <<>>
    /\ changes = <<>> /\ chunk_outside_blocks = <<>> /\ meshes = <<>>
    /\ unused_meshes = 0 /\ player_position = Stand
    /\ queued_chunks = {} /\ task_channel = <<>> /\ result_channel = <<>>
    /\ pc = "none" /\ moves = 0 /\ edits = 0
    /\ last = NoOp
    /\ AuxIdle
    /\ PaletteIdle

\* Player::update : the position is advanced by the velocity and
\* player_collision_mask resolves the move.  player_position is the pos the
\* function ends with.
CollisionMask(d) ==
    /\ calls < MaxSteps
    /\ LET new_pos == Add3(player_position, d)
           r == World_player_collision_mask(TheWorld, player_position, new_pos,
                                            PLAYER_WIDTH, PLAYER_HEIGHT)
       IN  /\ last' = [ op |-> "player_collision_mask",
                        args |-> <<player_position, new_pos>>, result |-> r ]
           /\ player_position' = r.pos
    /\ calls' = calls + 1
    /\ UNCHANGED << chunks, generated, changes, chunk_outside_blocks, meshes,
                    unused_meshes, queued_chunks, task_channel,
                    result_channel, pc, moves, edits, drawn, first_generated,
                    mesh_visible, previous_vp, entities, seed, paletteVars, call_stack,
                    restVars >>

NextCollide == \E d \in Displacements : CollisionMask(d)

SpecCollide == InitCollide /\ [][NextCollide]_vars

(***************************************************************************)
(* SpecPlace: Player::update placing a block next to the player, who       *)
(* stands on a floor of Stone.  Lengths are in fortieths of a block.       *)
(***************************************************************************)

\* The width and the height Player::update passes to player_collision_mask
\* after a placement: 0.5 and 1.8
PLACE_WIDTH == 20

PLACE_HEIGHT == 72

\* The blocks of the floor, at y = 4
FloorBlocks == {<<5, 4, 5>>, <<6, 4, 5>>, <<5, 4, 6>>, <<6, 4, 6>>}

\* The player's feet, on the floor block (5, 4, 5): x and z at 5.5, 5.65,
\* 5.7, 5.725, 5.75 and 5.8
PlaceStands ==
    {<<x, 5 * UNIT, z>> : x \in {220, 226, 228, 229, 230, 232},
                          z \in {220, 226, 228, 229, 230, 232}}

\* What cast_ray returns for the player looking down at the floor: a floor
\* block and its top face
RayHits == {[block_pos |-> b, face_normal |-> <<0, 1, 0>>] : b \in FloorBlocks}

\* The block in the player's hand
PlacedBlock == Stone

InitPlace ==
    /\ chunks = CollideScene(FloorBlocks)
    /\ player_position \in PlaceStands
    /\ generated = <<>>
    /\ changes = <<>> /\ chunk_outside_blocks = <<>> /\ meshes = <<>>
    /\ unused_meshes = 0
    /\ queued_chunks = {} /\ task_channel = <<>> /\ result_channel = <<>>
    /\ pc = "none" /\ moves = 0 /\ edits = 0
    /\ last = NoOp
    /\ AuxIdle
    /\ PaletteIdle

\* Player::update, the right mouse button with a selected block: set_block
\* at block_pos + face_normal, player_collision_mask(old_position, position,
\* 0.5, 1.8) with old_position = position, set_block(Air) if any flag is set
Player_place(w, hit, position) ==
    LET revert_if(w1, new_pos, revert) ==
            [ world |-> IF revert
                        THEN World_set_block(w1, new_pos[1], new_pos[2],
                                             new_pos[3], Air).world
                        ELSE w1,
              new_pos |-> new_pos, reverted |-> revert ]
        placed(w1, new_pos) ==
            revert_if(w1, new_pos,
                      \E axis \in 1..3 :
                          World_player_collision_mask(
                              w1, position, position,
                              PLACE_WIDTH, PLACE_HEIGHT).collided[axis])
        at(new_pos) ==
            placed(World_set_block(w, new_pos[1], new_pos[2], new_pos[3],
                                   PlacedBlock).world, new_pos)
    IN  at(Add3(hit.block_pos, hit.face_normal))

PlaceBlock(hit) ==
    /\ calls < MaxSteps
    /\ \E r \in {Player_place(TheWorld, hit, player_position)} :
           /\ SetWorld(r.world)
           /\ last' = [ op |-> "place", args |-> r.new_pos,
                        result |-> [reverted |-> r.reverted] ]
    /\ calls' = calls + 1
    /\ UNCHANGED << generated, meshes, unused_meshes, player_position,
                    queued_chunks, task_channel, result_channel, pc, moves,
                    edits, drawn, first_generated, mesh_visible, previous_vp,
                    entities, seed, paletteVars, call_stack, restVars >>

NextPlace == \E hit \in RayHits : PlaceBlock(hit)

SpecPlace == InitPlace /\ [][NextPlace]_vars

(***************************************************************************)
(* src/game/saveload.rs: World::save and World::load                       *)
(*                                                                         *)
(* A byte is a number in 0..255 and the save file a sequence of bytes.     *)
(* Offsets count from 0 as in the source: data[offset] is the element      *)
(* offset + 1 of the sequence.  The world is the record of the three       *)
(* fields the file holds: the seed, the change log and the registry.  The  *)
(* chunks are generated again by World::new and World::set_block and are   *)
(* not part of the file.                                                   *)
(***************************************************************************)

\* b"MP3D"
MAGIC == <<77, 80, 51, 68>>

LATEST_SAVEFILE_VER == 0

\* u32::to_le_bytes, u64::to_le_bytes : the width low bytes of n, lowest first
RECURSIVE to_le_bytes(_, _)
to_le_bytes(n, width) ==
    IF width = 0 THEN <<>>
    ELSE <<n % 256>> \o to_le_bytes(n \div 256, width - 1)

\* u32::from_le_bytes, u64::from_le_bytes
RECURSIVE from_le_bytes(_)
from_le_bytes(bytes) ==
    IF bytes = <<>> THEN 0
    ELSE bytes[1] + 256 * from_le_bytes(Tail(bytes))

\* i32::to_be_bytes : the two's complement bytes, highest first
i32_to_be_bytes(x) ==
    LET u == IF x < 0 THEN (x + 2147483647) + 1 ELSE x
    IN  << (u \div 16777216) + (IF x < 0 THEN 128 ELSE 0), (u \div 65536) % 256,
           (u \div 256) % 256, u % 256 >>

\* i32::to_le_bytes : the two's complement bytes, lowest first
i32_to_le_bytes(x) ==
    IF x < 0
    THEN LET b == to_le_bytes((x + 2147483647) + 1, 4)
         IN  [b EXCEPT ![4] = @ + 128]
    ELSE to_le_bytes(x, 4)

\* i32::from_le_bytes
i32_from_le_bytes(bytes) ==
    IF bytes[4] >= 128
    THEN (from_le_bytes([bytes EXCEPT ![4] = @ - 128]) - 2147483647) - 1
    ELSE from_le_bytes(bytes)

\* Result::Ok of a read: the value and the offset after it
ReadOk(value, offset) == [ok |-> TRUE, value |-> value, offset |-> offset]

\* Result::Err
Err(msg) == [ok |-> FALSE, err |-> msg]

\* data[from .. to], offsets from 0, to excluded
Slice(data, from, to) == SubSeq(data, from + 1, to)

read_u64(data, offset) ==
    IF offset + 8 > Len(data) THEN Err("Unexpected end of data")
    ELSE ReadOk(from_le_bytes(Slice(data, offset, offset + 8)), offset + 8)

read_u32(data, offset) ==
    IF offset + 4 > Len(data) THEN Err("Unexpected end of data")
    ELSE ReadOk(from_le_bytes(Slice(data, offset, offset + 4)), offset + 4)

read_i32(data, offset) ==
    IF offset + 4 > Len(data) THEN Err("Unexpected end of data")
    ELSE ReadOk(i32_from_le_bytes(Slice(data, offset, offset + 4)), offset + 4)

read_u8(data, offset) ==
    IF offset >= Len(data) THEN Err("Unexpected end of data")
    ELSE ReadOk(data[offset + 1], offset + 1)

\* read_string_ascii : the bytes up to the next 0 byte, which is skipped;
\* data[*offset] past the end of the data panics
RECURSIVE read_string_ascii(_, _)
read_string_ascii(data, offset) ==
    IF offset >= Len(data) THEN Err("panic: index out of bounds")
    ELSE IF data[offset + 1] = 0 THEN ReadOk(<<>>, offset + 1)
    ELSE LET rest == read_string_ascii(data, offset + 1)
         IN  IF rest.ok THEN ReadOk(<<data[offset + 1]>> \o rest.value, rest.offset)
             ELSE rest

\* str::as_bytes of the two entity names
as_bytes(entity_name) ==
    CASE entity_name = "Player" -> <<80, 108, 97, 121, 101, 114>>
      [] entity_name = "Billboard" -> <<66, 105, 108, 108, 98, 111, 97, 114, 100>>

\* The String that read_string_ascii builds from the bytes
ascii_string(bytes) ==
    IF bytes = as_bytes("Player") THEN "Player"
    ELSE IF bytes = as_bytes("Billboard") THEN "Billboard"
    ELSE "other"

\* Entity::save : the payload of the entity, opaque to the world
Entity_save(entity) == entity.data

\* Player::load, Billboard::load : the entity that the payload describes
Entity_load(entity_name, entity_data) ==
    [ok |-> TRUE, value |-> [name |-> entity_name, data |-> entity_data]]

\* From<u32> for Block : the block with that discriminant
Block_from_u32(block_id) == block_id

\* The blocks of enum Block used in change logs
SaveBlocks == {Air, Stone, StoneStairsN}

\* The sequences that enumerate the set S once: the orders a HashMap with
\* these keys can be iterated in
Orders(S) ==
    { f \in [1..Cardinality(S) -> S] : \A i, j \in 1..Cardinality(S) :
                                          f[i] = f[j] => i = j }

\* World::save, the loop over self.changes from the entry at index from on
RECURSIVE save_changes(_, _, _)
save_changes(changes_map, order, from) ==
    IF from > Len(order) THEN <<>>
    ELSE LET chunk == order[from][1]
             local == order[from][2]
             block == changes_map[order[from]]
         IN  i32_to_le_bytes(chunk[1]) \o i32_to_le_bytes(chunk[2])
             \o i32_to_le_bytes(chunk[3])
             \o << local[1] % 256, local[2] % 256, local[3] % 256 >>
             \o to_le_bytes(block, 4)
             \o save_changes(changes_map, order, from + 1)

\* World::save, the loop over self.entities
RECURSIVE save_entities(_, _, _)
save_entities(entity_map, order, from) ==
    IF from > Len(order) THEN <<>>
    ELSE LET id == order[from]
             entity_data == Entity_save(entity_map[id])
         IN  to_le_bytes(id.id, 4) \o as_bytes(id.entity_name) \o <<0>>
             \o to_le_bytes(Len(entity_data), 8) \o entity_data
             \o save_entities(entity_map, order, from + 1)

\* World::save : the changes and the entities are written in the orders the
\* two maps are iterated in
World_save(w, change_order, entity_order) ==
    MAGIC \o <<LATEST_SAVEFILE_VER>> \o <<CHUNK_SIZE % 256>>
    \o i32_to_le_bytes(w.seed)
    \o to_le_bytes(Cardinality(DOMAIN w.changes), 8)
    \o save_changes(w.changes, change_order, 1)
    \o to_le_bytes(Cardinality(DOMAIN w.entities), 8)
    \o save_entities(w.entities, entity_order, 1)

\* World::set_block, as far as the change log goes: the entry of the chunk
\* and local position of (x, y, z) is inserted or replaced
set_block_changes(changes_map, x, y, z, block) ==
    LET c == << div_euclid(x, CHUNK_SIZE), div_euclid(y, CHUNK_SIZE),
                div_euclid(z, CHUNK_SIZE) >>
        l == << rem_euclid(x, CHUNK_SIZE), rem_euclid(y, CHUNK_SIZE),
                rem_euclid(z, CHUNK_SIZE) >>
    IN  (<<c, l>> :> block) @@ changes_map

\* World::load, the loop over the changes: n are left to read
RECURSIVE load_changes(_, _, _, _, _)
load_changes(data, offset, n, chunk_size, changes_map) ==
    IF n = 0 THEN ReadOk(changes_map, offset)
    ELSE
    LET chunk_x == read_i32(data, offset) IN
    IF ~chunk_x.ok THEN chunk_x ELSE
    LET chunk_y == read_i32(data, chunk_x.offset) IN
    IF ~chunk_y.ok THEN chunk_y ELSE
    LET chunk_z == read_i32(data, chunk_y.offset) IN
    IF ~chunk_z.ok THEN chunk_z ELSE
    LET local_x == read_u8(data, chunk_z.offset) IN
    IF ~local_x.ok THEN local_x ELSE
    LET local_y == read_u8(data, local_x.offset) IN
    IF ~local_y.ok THEN local_y ELSE
    LET local_z == read_u8(data, local_y.offset) IN
    IF ~local_z.ok THEN local_z ELSE
    LET block_id == read_u32(data, local_z.offset) IN
    IF ~block_id.ok THEN block_id ELSE
    LET block == Block_from_u32(block_id.value)
        global_x == chunk_x.value * chunk_size + local_x.value
        global_y == chunk_y.value * chunk_size + local_y.value
        global_z == chunk_z.value * chunk_size + local_z.value
    IN  load_changes(data, block_id.offset, n - 1, chunk_size,
                     set_block_changes(changes_map, global_x, global_y,
                                       global_z, block))

\* World::load, the loop over the entities: n are left to read
RECURSIVE load_entities(_, _, _, _)
load_entities(data, offset, n, entity_map) ==
    IF n = 0 THEN ReadOk(entity_map, offset)
    ELSE
    LET id == read_u32(data, offset) IN
    IF ~id.ok THEN id ELSE
    LET name == read_string_ascii(data, id.offset) IN
    IF ~name.ok THEN name ELSE
    LET entity_id == [id |-> id.value, entity_name |-> ascii_string(name.value)]
        entity_data_len == read_u64(data, name.offset)
    IN
    IF ~entity_data_len.ok THEN entity_data_len ELSE
    IF entity_data_len.offset + entity_data_len.value > Len(data)
    THEN Err("panic: range end index out of range") ELSE
    LET entity_data == Slice(data, entity_data_len.offset,
                             entity_data_len.offset + entity_data_len.value)
        after == entity_data_len.offset + entity_data_len.value
        entity == IF entity_id.entity_name \in {"Player", "Billboard"}
                  THEN Entity_load(entity_id.entity_name, entity_data)
                  ELSE Err("Unsupported entity")
    IN
    IF ~entity.ok THEN entity
    ELSE load_entities(data, after, n - 1,
                       (entity_id :> entity.value) @@ entity_map)

\* World::new, as far as the file goes: no change, and the registry holds
\* the Player that add_entity registers under the id drawn for it
World_new(seed_value, fresh) ==
    [ seed |-> seed_value, changes |-> <<>>,
      entities |-> (fresh :> [name |-> "Player", data |-> <<>>]) ]

\* World::load : Ok(world) or Err(message).  fresh is the id that World::new
\* draws for the Player it registers.
World_load(data, fresh) ==
    IF Len(data) < 4 THEN Err("panic: range end index out of range") ELSE
    IF Slice(data, 0, 4) /= MAGIC THEN Err("Invalid save file signature") ELSE
    LET version == read_u8(data, 4) IN
    IF ~version.ok THEN version ELSE
    IF version.value /= 0 THEN Err("Unsupported save file version") ELSE
    LET chunk_size == read_u8(data, version.offset) IN
    IF ~chunk_size.ok THEN chunk_size ELSE
    LET seed_value == read_i32(data, chunk_size.offset) IN
    IF ~seed_value.ok THEN seed_value ELSE
    LET w0 == [World_new(seed_value.value, fresh) EXCEPT !.entities = <<>>]
        changes_len == read_u64(data, seed_value.offset)
    IN
    IF ~changes_len.ok THEN changes_len ELSE
    LET loaded_changes == load_changes(data, changes_len.offset,
                                       changes_len.value, chunk_size.value,
                                       w0.changes)
    IN
    IF ~loaded_changes.ok THEN loaded_changes ELSE
    LET entities_len == read_u64(data, loaded_changes.offset) IN
    IF ~entities_len.ok THEN entities_len ELSE
    LET loaded_entities == load_entities(data, entities_len.offset,
                                         entities_len.value, w0.entities)
    IN
    IF ~loaded_entities.ok THEN loaded_entities
    ELSE [ ok |-> TRUE,
           value |-> [ seed |-> w0.seed, changes |-> loaded_changes.value,
                       entities |-> loaded_entities.value ] ]

\* The seeds worlds are made with
Seeds == {0, -1, 305419896, -2147483647}

\* The positions of the edits in the change logs: chunk and local position
ChangeKeys ==
    { << <<0, 0, 0>>, <<0, 0, 0>> >>, << <<-1, 0, 2>>, <<15, 0, 7>> >>,
      << <<134217727, -134217727, -3>>, <<15, 15, 1>> >> }

\* The id of the Player and the ids of the Billboards of the registries
PlayerIds == { [id |-> 7, entity_name |-> "Player"],
               [id |-> 2147483647, entity_name |-> "Player"] }

BillboardIds == { [id |-> 7, entity_name |-> "Billboard"],
                  [id |-> 66051, entity_name |-> "Billboard"] }

\* The entity registered under id, with the payload Entity::save gives it
SavedEntity(id) ==
    [ name |-> id.entity_name,
      data |-> IF id.entity_name = "Player" THEN <<1, 0, 255>> ELSE <<0, 0>> ]

InitSave ==
    /\ seed \in Seeds /\ call_stack = <<>> /\ RestIdle
    /\ \E S \in SUBSET ChangeKeys : changes \in [S -> SaveBlocks]
    /\ \E p \in PlayerIds, B \in SUBSET BillboardIds :
           entities = [id \in {p} \cup B |-> SavedEntity(id)]
    /\ calls = 0 /\ drawn = 0 /\ first_generated = <<>>
    /\ mesh_visible = {} /\ previous_vp = <<>>
    /\ generated = <<>> /\ chunks = <<>>
    /\ chunk_outside_blocks = <<>> /\ meshes = <<>>
    /\ unused_meshes = 0 /\ player_position = <<0, 0, 0>>
    /\ queued_chunks = {} /\ task_channel = <<>> /\ result_channel = <<>>
    /\ pc = "none" /\ moves = 0 /\ edits = 0
    /\ last = NoOp
    /\ PaletteIdle

\* The world is saved and the bytes are loaded.  fresh is the id World::new
\* draws for its Player during the load.
SaveLoad(change_order, entity_order, fresh) ==
    /\ calls = 0
    /\ LET data == World_save([seed |-> seed, changes |-> changes,
                               entities |-> entities],
                              change_order, entity_order)
       IN  last' = [ op |-> "World::load", args |-> <<data>>,
                     result |-> World_load(data, fresh) ]
    /\ calls' = calls + 1
    /\ UNCHANGED << seed, changes, entities, drawn, first_generated,
                    mesh_visible, previous_vp, generated, chunks,
                    chunk_outside_blocks, meshes, unused_meshes,
                    player_position, queued_chunks, task_channel,
                    result_channel, pc, moves, edits, paletteVars, call_stack,
                    restVars >>

NextSave ==
    \E change_order \in Orders(DOMAIN changes),
       entity_order \in Orders(DOMAIN entities), fresh \in PlayerIds :
        SaveLoad(change_order, entity_order, fresh)

SpecSave == InitSave /\ [][NextSave]_vars

(***************************************************************************)
(* src/game/world.rs, src/game/entity.rs: the entity registry              *)
(*                                                                         *)
(* The registry maps an EntityId, the record of a number and the name of   *)
(* the entity's type, to the entity.  Of an entity the model keeps the     *)
(* name and, for a Billboard, the position and the life, with the position *)
(* in half blocks.  An Rc that the registry no longer *)
(* holds is an entity that was replaced: World::update still updates it    *)
(* through its clone of the registry, which changes nothing the registry   *)
(* holds.                                                                  *)
(***************************************************************************)

\* The values of rand::random() followed
RandomIds == {7, 9}

\* Largest number of Glungus blocks that one Player::update breaks
MaxExplosions == 1

\* The Glungus blocks the player breaks
ExplosionBlocks == {<<1, 0, 0>>}

\* The positions of the Player: next to the Glungus blocks, and four blocks
\* from them
EntityPlayerPositions == {<<0, 0, 0>>, <<-3, 0, 0>>}

\* pos.as_vec3() + vec3(0.5, 0.5, 0.5), in half blocks
block_centre(pos) == <<2 * pos[1] + 1, 2 * pos[2] + 1, 2 * pos[3] + 1>>

\* Billboard::update : effect_radius = 3.0, in half blocks
EFFECT_RADIUS == 6

\* break_block : size as u32 * 25 with size drawn from 1.0..2.0
EXPLOSION_LIFE == 25

\* EntityId::new::<E>() with the value drawn for it
EntityId_new(random, entity_name) == [id |-> random, entity_name |-> entity_name]

\* Player::new, Billboard::new
Player_new == [name |-> "Player"]

Billboard_new(position, life) ==
    [name |-> "Billboard", position |-> position, life |-> life]

\* Entity::requests_removal : false, unless the type overrides it;
\* Billboard::requests_removal : self.life == 0
requests_removal(entity) ==
    IF entity.name = "Billboard" THEN entity.life = 0 ELSE FALSE

\* A Billboard::update that leaves the life as it is
Billboard_update_no_decay(entity) == entity

\* Billboard::update, the life of the billboard
Billboard_update(entity) ==
    IF entity.life > 0 THEN [entity EXCEPT !.life = @ - 1] ELSE entity

\* Entity::position of the entity registered under other_id, in half blocks
Entity_position(registry, other_id, player_pos) ==
    IF registry[other_id].name = "Player"
    THEN <<2 * player_pos[1], 2 * player_pos[2], 2 * player_pos[3]>>
    ELSE registry[other_id].position

\* Billboard::update, the loop over world.entities: the ids of the entities
\* apply_velocity is called on with a force that is not zero
Billboard_impulse(billboard, id, registry, player_pos) ==
    { other_id \in DOMAIN registry :
        /\ other_id /= id
        /\ registry[other_id].name /= "Billboard"
        /\ LET p == Entity_position(registry, other_id, player_pos)
               d(a) == p[a] - billboard.position[a]
               distance == d(1) * d(1) + d(2) * d(2) + d(3) * d(3)
           IN  distance < EFFECT_RADIUS * EFFECT_RADIUS /\ distance > 0 }

\* World::add_entity : self.entities.insert(entity.id(), ...), with the
\* value entity.id() draws
World_add_entity(registry, random, entity) ==
    (EntityId_new(random, entity.name) :> entity) @@ registry

\* The registry and record of the calls after add_entity was called for the
\* Billboard of each explosion from index from on
RECURSIVE add_explosions(_, _, _)
add_explosions(state, explosions, from) ==
    IF from > Len(explosions) THEN state
    ELSE LET registry ==
                 World_add_entity(state.registry, explosions[from].random,
                                  Billboard_new(block_centre(explosions[from].block),
                                                EXPLOSION_LIFE))
             call == [ id |-> EntityId_new(explosions[from].random, "Billboard"),
                       before |-> DOMAIN state.registry,
                       after |-> DOMAIN registry ]
         IN  add_explosions(
                 [ state EXCEPT
                     !.registry = registry,
                     !.replaced = @ \cup ({call.id} \cap call.before),
                     !.added = Append(@, call) ],
                 explosions, from + 1)

\* World::update, the loop over self.entities.clone() from index from on.
\* The Player's update breaks the Glungus blocks of the explosions; a
\* Billboard's update changes the entity the clone holds, which is the one
\* in the registry unless it was replaced during the pass, and applies its
\* impulse to the entities the registry holds.  state.clone is the clone.
RECURSIVE update_entities(_, _, _, _, _)
update_entities(state, order, explosions, player_pos, from) ==
    IF from > Len(order) THEN state
    ELSE LET id == order[from]
             ran == [state EXCEPT !.updated = @ \cup {id}]
             hit == Billboard_impulse(state.clone[id], id, state.registry,
                                      player_pos)
             pushed == [ran EXCEPT !.impulses =
                            @ \cup {<<id, other_id>> : other_id \in hit}]
             next ==
                 IF id.entity_name = "Player"
                 THEN add_explosions(ran, explosions, 1)
                 ELSE IF id \in state.replaced THEN pushed
                 ELSE [pushed EXCEPT !.registry[id] = Billboard_update(@)]
         IN  update_entities(next, order, explosions, player_pos, from + 1)

\* The order World::update iterates in: the one of the clone of the
\* registry, which holds the entities that were retained
update_order(registry, order) ==
    LET retained(id) == id \in DOMAIN registry
    IN  SelectSeq(order, retained)

\* HashMap::retain(|_, e| !e.borrow().requests_removal())
retain_entities(registry) ==
    [ id \in {i \in DOMAIN registry : ~requests_removal(registry[i])}
        |-> registry[id] ]

\* A World::update that updates the entities and then purges
World_update_then_purge(registry, order, explosions, player_pos) ==
    LET state == update_entities(
                     [ registry |-> registry, clone |-> registry,
                       updated |-> {}, replaced |-> {}, added |-> <<>>,
                       impulses |-> {} ],
                     order, explosions, player_pos, 1)
    IN  [ state EXCEPT !.registry = retain_entities(@) ]

\* World::update, the entities: the purge, then the updates of the entities
\* that were retained.  order is the iteration order of the registry.
World_update_entities(registry, order, explosions, player_pos) ==
    LET retained == retain_entities(registry)
    IN  update_entities(
            [ registry |-> retained, clone |-> retained, updated |-> {},
              replaced |-> {}, added |-> <<>>, impulses |-> {} ],
            update_order(retained, order), explosions, player_pos, 1)

\* The explosions of one pass: for each the block broken and the value
\* drawn for the id of its Billboard
Explosions ==
    UNION { [1..n -> [random : RandomIds, block : ExplosionBlocks]] :
              n \in 0..MaxExplosions }

\* World::new : the registry holds the Player
InitEntities ==
    /\ \E random \in RandomIds :
           entities = World_add_entity(<<>>, random, Player_new)
    /\ seed = 0 /\ call_stack = <<>> /\ RestIdle
    /\ calls = 0 /\ drawn = 0 /\ first_generated = <<>>
    /\ mesh_visible = {} /\ previous_vp = <<>>
    /\ generated = <<>> /\ chunks = <<>> /\ changes = <<>>
    /\ chunk_outside_blocks = <<>> /\ meshes = <<>>
    /\ unused_meshes = 0 /\ player_position \in EntityPlayerPositions
    /\ queued_chunks = {} /\ task_channel = <<>> /\ result_channel = <<>>
    /\ pc = "none" /\ moves = 0 /\ edits = 0
    /\ last = NoOp
    /\ PaletteIdle

\* One World::update pass
UpdateEntities(order, explosions) ==
    /\ LET state == World_update_entities(entities, order, explosions,
                                          player_position)
       IN  /\ entities' = state.registry
           /\ last' = [ op |-> "World::update", args |-> <<explosions>>,
                        result |->
                            [ removed |-> {id \in DOMAIN entities :
                                               id \notin DOMAIN state.registry},
                              updated |-> state.updated,
                              added |-> state.added,
                              impulses |-> state.impulses ] ]
    /\ UNCHANGED << seed, calls, changes, drawn, first_generated, mesh_visible,
                    previous_vp, generated, chunks, chunk_outside_blocks,
                    meshes, unused_meshes, player_position, queued_chunks,
                    task_channel, result_channel, pc, moves, edits,
                    paletteVars, call_stack,
                    restVars >>

NextEntities ==
    \E order \in Orders(DOMAIN entities), explosions \in Explosions :
        UpdateEntities(order, explosions)

SpecEntities == InitEntities /\ [][NextEntities]_vars

(***************************************************************************)
(* src/game/world.rs: World::break_block                                   *)
(*                                                                         *)
(* The recursion is followed call by call.  call_stack holds a frame for   *)
(* every call in progress: the position, and for a call that is in its     *)
(* loop over the neighbours the index of the next (dx, dy, dz), counted    *)
(* from 0 in the order of the three nested loops.                          *)
(***************************************************************************)

\* The number of (dx, dy, dz) the three loops of -2..=2 go through
NUM_OFFSETS == 125

\* The (dx, dy, dz) of index k
break_offset(k) == <<(k \div 25) - 2, ((k \div 5) % 5) - 2, (k % 5) - 2>>

\* vec3(dx, dy, dz).length_squared() > 4.0 : continue
offset_skipped(k) ==
    LET d == break_offset(k)
    IN  d[1] * d[1] + d[2] * d[2] + d[3] * d[3] > 4

\* The index of the first (dx, dy, dz) from k on that is not skipped, or
\* NUM_OFFSETS when the loops are over
RECURSIVE next_offset(_)
next_offset(k) ==
    IF k >= NUM_OFFSETS THEN NUM_OFFSETS
    ELSE IF offset_skipped(k) THEN next_offset(k + 1)
    ELSE k

\* The positions of the blocks of the scenes, in the origin chunk: two
\* blocks side by side, a third two blocks further, a fourth out of reach
\* of the three
BreakPositions == <<<<6, 6, 6>>, <<7, 6, 6>>, <<9, 6, 6>>, <<6, 6, 12>>>>

\* The blocks at the positions
BreakBlocks == {Air, Stone, Bedrock, Glungus}

\* The origin chunk, of Air, with the blocks bs at the positions from
\* index from on
RECURSIVE BreakScene(_, _)
BreakScene(bs, from) ==
    IF from > Len(BreakPositions) THEN (<<0, 0, 0>> :> AirChunk)
    ELSE ScenePlace(BreakScene(bs, from + 1), BreakPositions[from], bs[from])

\* The frame of a call that has not run yet
Call(pos) == [pos |-> pos, stage |-> "enter", k |-> 0]

InitBreak ==
    /\ \E bs \in [1..Len(BreakPositions) -> BreakBlocks] :
           chunks = BreakScene(bs, 1)
    /\ \E random \in RandomIds :
           entities = World_add_entity(<<>>, random, Player_new)
    /\ call_stack = <<Call(BreakPositions[1])>>
    /\ seed = 0 /\ RestIdle
    /\ calls = 0 /\ drawn = 0 /\ first_generated = <<>>
    /\ mesh_visible = {} /\ previous_vp = <<>>
    /\ generated = <<>> /\ changes = <<>>
    /\ chunk_outside_blocks = <<>> /\ meshes = <<>>
    /\ unused_meshes = 0 /\ player_position = <<0, 0, 0>>
    /\ queued_chunks = {} /\ task_channel = <<>> /\ result_channel = <<>>
    /\ pc = "none" /\ moves = 0 /\ edits = 0
    /\ last = NoOp
    /\ PaletteIdle

\* The variables World::break_block leaves alone
breakIdleVars ==
    << seed, calls, drawn, first_generated, mesh_visible, previous_vp,
       generated, meshes, unused_meshes, player_position, queued_chunks,
       task_channel, result_channel, pc, moves, edits, paletteVars,
       restVars >>

\* A break_block that recurses before it sets its block to Air
break_block_enter_recurse_first(w, frame) ==
    LET pos == frame.pos
        r == World_get_block(w, pos[1], pos[2], pos[3])
    IN  IF r.block = Air \/ r.block = Bedrock
        THEN [world |-> r.world, block |-> r.block, frames |-> <<>>]
        ELSE [ world |-> IF r.block = Glungus THEN r.world
                         ELSE World_set_block(r.world, pos[1], pos[2], pos[3],
                                              Air).world,
               block |-> r.block,
               frames |-> IF r.block = Glungus
                          THEN <<[frame EXCEPT !.stage = "loop",
                                               !.k = next_offset(0)]>>
                          ELSE <<>> ]

\* World::break_block from its start to the loops: get_block, the return
\* on Air and Bedrock, set_block(Air).  frames is what the call leaves on
\* the stack: nothing when it has returned, its frame at the first
\* (dx, dy, dz) when the block was Glungus.
break_block_enter(w, frame) ==
    LET pos == frame.pos
        r == World_get_block(w, pos[1], pos[2], pos[3])
    IN  IF r.block = Air \/ r.block = Bedrock
        THEN [world |-> r.world, block |-> r.block, frames |-> <<>>]
        ELSE [ world |-> World_set_block(r.world, pos[1], pos[2], pos[3],
                                         Air).world,
               block |-> r.block,
               frames |-> IF r.block = Glungus
                          THEN <<[frame EXCEPT !.stage = "loop",
                                               !.k = next_offset(0)]>>
                          ELSE <<>> ]

\* The innermost call starts
BreakEnter ==
    /\ call_stack /= <<>>
    /\ LET frame == call_stack[Len(call_stack)]
       IN  /\ frame.stage = "enter"
           /\ LET r == break_block_enter(TheWorld, frame)
              IN  /\ SetWorld(r.world)
                  /\ call_stack' =
                         SubSeq(call_stack, 1, Len(call_stack) - 1) \o r.frames
                  /\ last' = [ op |-> "break_block", args |-> frame.pos,
                               result |-> [block |-> r.block] ]
    /\ UNCHANGED << entities, breakIdleVars >>

\* The innermost call, in its loops, calls break_block for the next
\* neighbour
BreakRecurse ==
    /\ call_stack /= <<>>
    /\ LET n == Len(call_stack)
           frame == call_stack[n]
       IN  /\ frame.stage = "loop" /\ frame.k < NUM_OFFSETS
           /\ call_stack' =
                  Append([call_stack EXCEPT ![n].k = next_offset(frame.k + 1)],
                         Call(Add3(frame.pos, break_offset(frame.k))))
           /\ last' = [ op |-> "recurse", args |-> frame.pos,
                        result |-> [k |-> frame.k] ]
    /\ UNCHANGED << chunks, changes, chunk_outside_blocks, entities,
                    breakIdleVars >>

\* The innermost call, its loops over, adds the Billboard of the explosion
\* and returns
BreakExplode(random) ==
    /\ call_stack /= <<>>
    /\ LET n == Len(call_stack)
           frame == call_stack[n]
       IN  /\ frame.stage = "loop" /\ frame.k >= NUM_OFFSETS
           /\ entities' =
                  World_add_entity(entities, random,
                                   Billboard_new(block_centre(frame.pos),
                                                 EXPLOSION_LIFE))
           /\ call_stack' = SubSeq(call_stack, 1, n - 1)
           /\ last' = [ op |-> "explode", args |-> frame.pos,
                        result |-> [id |-> EntityId_new(random, "Billboard")] ]
    /\ UNCHANGED << chunks, changes, chunk_outside_blocks, breakIdleVars >>

NextBreak ==
    \/ BreakEnter
    \/ BreakRecurse
    \/ \E random \in RandomIds : BreakExplode(random)

SpecBreak == InitBreak /\ [][NextBreak]_vars

(***************************************************************************)
(* mp3d-core/src/server/mod.rs: Server::handle_message, Connect and        *)
(* Disconnect                                                              *)
(*                                                                         *)
(* server is the record of Server::sessions, Server::connections and the   *)
(* entities of Server::world.  A session is its user_id, its entity_id and *)
(* its pending_messages.                                                   *)
(***************************************************************************)

\* The connection ids messages arrive with
ConnectionIds == {1, 2}

\* The number of messages handled in a behaviour
MaxMessages == 5

\* Server::new
Server_new == [sessions |-> EmptyMap, connections |-> EmptyMap,
               entities |-> EmptyMap]

\* The smallest id from 1 on that is not in ids
RECURSIVE first_free(_, _)
first_free(ids, id) == IF id \in ids THEN first_free(ids, id + 1) ELSE id

\* Server::next_user_id
Server_next_user_id(s) == first_free(DOMAIN s.sessions, 1)

\* mp3d-core World::add_entity : [entities, entity_id], the id being
\* next_entity_id()
Core_World_add_entity(entities_, entity) ==
    LET entity_id == first_free(DOMAIN entities_, 1)
    IN  [ entities |-> (entity_id :> [entity EXCEPT !.id = entity_id])
                          @@ entities_,
          entity_id |-> entity_id ]

\* mp3d-core World::remove_entity
Core_World_remove_entity(entities_, entity_id) ==
    [id \in DOMAIN entities_ \ {entity_id} |-> entities_[id]]

\* broadcast_message : the message is pushed to every session but the
\* sender's
broadcast_message(sessions, sender_id, message) ==
    [uid \in DOMAIN sessions |->
        IF sender_id = Some(uid) THEN sessions[uid]
        ELSE [sessions[uid] EXCEPT
                 !.pending_messages = Append(@, message)]]

\* Server::handle_message, C2SMessage::Connect
handle_connect(s, connection_id) ==
    LET user_id == Server_next_user_id(s)
        added == Core_World_add_entity(s.entities,
                     [type |-> "Player", user_id |-> user_id, id |-> 0])
        session == [ user_id |-> user_id, entity_id |-> added.entity_id,
                     pending_messages |->
                         <<[type |-> "Connected", user_id |-> user_id]>> ]
    IN  [ sessions |-> broadcast_message(
                           (user_id :> session) @@ s.sessions, Some(user_id),
                           [type |-> "EntitySpawned",
                            entity_id |-> added.entity_id]),
          connections |-> (connection_id :> user_id) @@ s.connections,
          entities |-> added.entities ]

\* Server::handle_message, C2SMessage::Disconnect.  session.unwrap() does
\* not panic: a user id is put into connections together with its session,
\* and a session is removed only through the connection that maps to it.
handle_disconnect(s, connection_id) ==
    IF connection_id \notin DOMAIN s.connections THEN s
    ELSE LET user_id == s.connections[connection_id]
             rest == [u \in DOMAIN s.sessions \ {user_id} |-> s.sessions[u]]
         IN  [ sessions |-> broadcast_message(rest, None,
                                [type |-> "Disconnected", user_id |-> user_id]),
               connections |-> [c \in DOMAIN s.connections \ {connection_id} |->
                                   s.connections[c]],
               entities |-> Core_World_remove_entity(
                                s.entities, s.sessions[user_id].entity_id) ]

\* Server::handle_message for the two messages
Server_handle_message(s, connection_id, message) ==
    IF message = "Connect" THEN handle_connect(s, connection_id)
    ELSE handle_disconnect(s, connection_id)

InitServer ==
    /\ server = Server_new
    /\ mesh_data = <<>>
    /\ calls = 0 /\ drawn = 0 /\ first_generated = <<>>
    /\ mesh_visible = {} /\ previous_vp = <<>> /\ entities = <<>>
    /\ seed = 0 /\ call_stack = <<>>
    /\ generated = <<>> /\ chunks = <<>> /\ changes = <<>>
    /\ chunk_outside_blocks = <<>> /\ meshes = <<>>
    /\ unused_meshes = 0 /\ player_position = <<0, 0, 0>>
    /\ queued_chunks = {} /\ task_channel = <<>> /\ result_channel = <<>>
    /\ pc = "none" /\ moves = 0 /\ edits = 0
    /\ last = NoOp
    /\ PaletteIdle

HandleMessage(connection_id, message) ==
    /\ calls < MaxMessages
    /\ server' = Server_handle_message(server, connection_id, message)
    /\ last' = [ op |-> message, args |-> <<connection_id>>,
                 result |-> <<>> ]
    /\ calls' = calls + 1
    /\ UNCHANGED << mesh_data, drawn, first_generated, mesh_visible,
                    previous_vp, entities, seed, call_stack, generated, chunks,
                    changes, chunk_outside_blocks, meshes, unused_meshes,
                    player_position, queued_chunks, task_channel,
                    result_channel, pc, moves, edits, paletteVars >>

NextServer ==
    \E connection_id \in ConnectionIds, message \in {"Connect", "Disconnect"} :
        HandleMessage(connection_id, message)

SpecServer == InitServer /\ [][NextServer]_vars

\* C1: get_block(p) returns the block most recently written to slot p, and
\* a slot never written returns the block it held when the chunk was created.
C1_RoundTrip == \A p \in ProbeSlots : CoreGetBlock(CoreChunk, p) = shadow[p]

\* C2: the palette holds no two equal entries.
C2_PaletteUnique ==
    Cardinality({block_palette[i] : i \in 1..Len(block_palette)})
        = Len(block_palette)

\* C2 witness: a set_block has appended a block declared on the fly and a
\* later set_block of the same block has found it again.
C2_Witness ==
    /\ Len(block_palette) > 4
    /\ \E p \in PaletteSlots, q \in PaletteSlots :
          /\ p # q
          /\ blocks[CoreSlotIndex(p)] = blocks[CoreSlotIndex(q)]
          /\ blocks[CoreSlotIndex(p)] >= 4

(***************************************************************************)
(* The world: addressing, the change log, dirty flags and overspill        *)
(***************************************************************************)

\* The world coordinates the addressing functions are tried on
Coordinates == (0 - CHUNK_SIZE - 1)..(CHUNK_SIZE + 1)

\* The player has just queried or edited a block
BlockOperation == last.op \in {"get_block", "set_block"}

\* C3: on each axis, World::get_block and World::set_block address chunk c
\* and local l with c * 16 + l = w and 0 <= l < 16 for the world coordinate
\* w, negative or not; so do get_chunk_and_local_coords of the generator
\* and the div_euclid / rem_euclid pair of get_block_at / set_block_at,
\* tried on every coordinate of Coordinates after each such operation.
C3_EuclidAddressing ==
    BlockOperation =>
        /\ \A a \in 1..3 :
               /\ last.result.chunk[a] * CHUNK_SIZE + last.result.local[a]
                      = last.args[a]
               /\ last.result.local[a] \in 0..(CHUNK_SIZE - 1)
        /\ \A w \in Coordinates :
               LET r == get_chunk_and_local_coords(w, 0 - w, w + 1)
                   p == <<w, 0 - w, w + 1>>
               IN  /\ r = <<ChunkOf(p), LocalOf(p)>>
                   /\ \A a \in 1..3 :
                          /\ r[1][a] * CHUNK_SIZE + r[2][a] = p[a]
                          /\ r[2][a] \in 0..(CHUNK_SIZE - 1)

\* C3 witness: a set_block at x = -1 has addressed chunk -1, local 15.
C3_Witness ==
    /\ last.op = "set_block"
    /\ last.args[1] = -1
    /\ last.result.chunk[1] = -1
    /\ last.result.local[1] = CHUNK_SIZE - 1
    /\ <<last.result.chunk, last.result.local>> \in DOMAIN changes

\* C4: a block query at a position the change log has an entry for returns
\* the block of that entry, also after the chunk of the position has been
\* dropped and has become resident again.
C4_EditSurvivesReload ==
    last.op = "get_block" =>
        LET key == <<last.result.chunk, last.result.local>>
        IN  key \in DOMAIN changes => last.result.block = changes[key]

\* The coordinates of the chunks whose dirty flag is set
Dirty(cs) == {c \in DOMAIN cs : cs[c].is_dirty}

\* The chunks next to chunk c on the sides the local position lies on
SideNeighbours(c, local) ==
    {Add3(c, FaceNormal(i)) : i \in {i \in 0..5 :
        \E a \in 1..3 :
            \/ FaceNormal(i)[a] = -1 /\ local[a] = 0
            \/ FaceNormal(i)[a] = 1 /\ local[a] = CHUNK_SIZE - 1}}

\* The step is a World::set_block call of the player
SetBlockStep == pc = "entities" /\ edits' = edits + 1

\* C5: a World::set_block call leaves the edited chunk C dirty and, for
\* every side of C the local position lies on, the chunk next to C on that
\* side resident and dirty; the dirty flag of every other chunk is as it was
\* before the call, so an edit in the interior sets the flag of C alone.
C5_SetBlockDirties ==
    [][ SetBlockStep =>
          LET C == last'.result.chunk
              N == SideNeighbours(C, last'.result.local)
          IN  /\ C \in Dirty(chunks')
              /\ N \subseteq Dirty(chunks')
              /\ Dirty(chunks') \ ({C} \cup N) = Dirty(chunks) \ ({C} \cup N)
              /\ DOMAIN chunks' \ ({C} \cup N) = DOMAIN chunks \ ({C} \cup N)
      ]_vars

\* C5 witness: a set_block at local x = 0 has set the flag of the chunk on
\* the -X side, whose flag generate_meshes had cleared when it made the mesh
\* that chunk still has; the edited chunk is dirty as well.
C5_Witness ==
    /\ pc = "meshes"
    /\ last.op = "set_block"
    /\ last.result.local[1] = 0
    /\ LET C == last.result.chunk
           W == Add3(C, <<-1, 0, 0>>)
       IN  /\ W \in DOMAIN meshes
           /\ W \in Dirty(chunks)
           /\ C \in Dirty(chunks)

\* C6: the blocks a generated chunk A places outside itself are recorded in
\* the overspill table under (B, local) with B # A and local in [0, 16) on
\* each axis; and in every step in which a chunk B becomes resident, each
\* slot of B the table had an entry for (and the change log has none) holds
\* the block of that entry.
C6_OverspillApplied ==
    [][ /\ \A A \in DOMAIN generated :
               \A k \in DOMAIN generated[A].outside_blocks :
                   /\ k[1] # A
                   /\ \A a \in 1..3 : k[2][a] \in 0..(CHUNK_SIZE - 1)
        /\ \A B \in DOMAIN chunks' \ DOMAIN chunks :
               \A k \in DOMAIN chunk_outside_blocks :
                   (k[1] = B /\ k \notin DOMAIN changes')
                       => Chunk_get_block(chunks'[B], k[2][1], k[2][2], k[2][3])
                              = chunk_outside_blocks[k]
      ]_vars

\* C7: whenever two chunks A and B are both resident, every block that
\* generating A placed at a position of B is in B, unless the change log
\* has an entry for the slot.
C7_NoTreeClipped ==
    \A A \in DOMAIN chunks, B \in DOMAIN chunks :
        \A k \in DOMAIN Generate(A).outside_blocks :
            (k[1] = B /\ k \notin DOMAIN changes)
                => Chunk_get_block(chunks[B], k[2][1], k[2][2], k[2][3])
                       = Generate(A).outside_blocks[k]

(***************************************************************************)
(* The mesher and the occlusion table                                      *)
(***************************************************************************)

\* The slot numbers of a chunk that hold a block other than Air
NonAirSlots(chunk) == {idx \in 0..(NumSlots - 1) : chunk.blocks[idx + 1] # Air}

\* The class of the block at a world position; "Absent" when the chunk that
\* holds the position is not resident
TypeAt(world_pos) ==
    LET c == ChunkOf(world_pos)
        l == LocalOf(world_pos)
    IN  IF c \in DOMAIN chunks
        THEN block_type(Chunk_get_block(chunks[c], l[1], l[2], l[3]))
        ELSE "Absent"

\* The mesh of the origin chunk has just been generated
MeshedOrigin == last.op = "generate_chunk_mesh"

\* The origin chunk holds one block other than Air, a full cube, and the six
\* positions around it hold Air or lie in a chunk that is not resident
IsolatedFullCube ==
    LET slots == NonAirSlots(chunks[<<0, 0, 0>>])
    IN  /\ Cardinality(slots) = 1
        /\ \A idx \in slots :
              /\ mask_partial(chunks[<<0, 0, 0>>].blocks[idx + 1]) = 0
              /\ \A f \in 0..5 :
                    TypeAt(Add3(SlotPos(idx), FaceNormal(f))) \in {"Air", "Absent"}

\* C8: the mesh of a chunk whose only block is one full cube with Air (or a
\* missing chunk) on all six sides has 6 faces: 24 vertices, 36 indices.
C8_IsolatedCube ==
    (MeshedOrigin /\ IsolatedFullCube) =>
        /\ Len(last.result.vertices) = 24
        /\ Len(last.result.indices) = 36
        /\ {last.result.vertices[k].face : k \in 1..24} = 0..5

\* C8 witness: the cube is on the chunk boundary, the chunk across it is
\* not resident, and the mesh has been generated.
C8_Witness ==
    /\ MeshedOrigin
    /\ IsolatedFullCube
    /\ NonAirSlots(chunks[<<0, 0, 0>>]) = {SlotIndex(0, 5, 15)}
    /\ <<-1, 0, 0>> \notin DOMAIN chunks
    /\ Len(last.result.vertices) = 24

\* Slot idx of the origin chunk holds a full-opaque block and so do the six
\* positions around it
Buried(idx) ==
    /\ block_type(chunks[<<0, 0, 0>>].blocks[idx + 1]) = "FullOpaque"
    /\ \A f \in 0..5 : TypeAt(Add3(SlotPos(idx), FaceNormal(f))) = "FullOpaque"

\* C9: a full-opaque block with full-opaque blocks on all six sides has no
\* face in the mesh, also when some of the six are in a neighbour chunk.
C9_BuriedBlock ==
    MeshedOrigin =>
        \A idx \in NonAirSlots(chunks[<<0, 0, 0>>]) :
            Buried(idx) =>
                \A k \in 1..Len(last.result.vertices) :
                    last.result.vertices[k].block_pos # SlotPos(idx)

\* C9 witness: the buried block is on the chunk boundary, two of its six
\* neighbours are in the chunks across, and the mesh (which has the faces
\* of the blocks around it) has been generated.
C9_Witness ==
    /\ MeshedOrigin
    /\ Buried(SlotIndex(0, 5, 15))
    /\ Len(last.result.vertices) > 0
    /\ \A k \in 1..Len(last.result.vertices) :
          last.result.vertices[k].block_pos # <<0, 5, 15>>

\* The pairs (class of the block, class of its neighbour) whose face is
\* dropped
DroppedPairs ==
    { <<"FullOpaque", "FullOpaque">>, <<"Translucent", "FullOpaque">>,
      <<"Translucent", "Translucent">> }

\* C10: should_occlude answers "drop" for exactly the three pairs
\* (FullOpaque, FullOpaque), (Translucent, FullOpaque), (Translucent,
\* Translucent) of classes, whatever the two blocks of those classes are.
C10_OcclusionTable ==
    last.op = "should_occlude" =>
        (last.result <=>
            <<block_type(last.args[1]), block_type(last.args[2])>> \in DroppedPairs)

\* C10 witness: a translucent block next to another translucent block has
\* been asked about, and the face is dropped.
C10_Witness ==
    /\ last.op = "should_occlude"
    /\ last.args = <<Glass, Leaves>>
    /\ last.result = TRUE


(***************************************************************************)
(* Generation, residency and requests                                      *)
(***************************************************************************)

ChunkDistanceSquared(a, b) ==
    (a[1] - b[1]) * (a[1] - b[1]) + (a[2] - b[2]) * (a[2] - b[2])
        + (a[3] - b[3]) * (a[3] - b[3])

\* The chunk coordinate is within R = RENDER_DISTANCE chunks of the chunk
\* that contains the player's position
WithinR(c) ==
    ChunkDistanceSquared(c, ChunkOf(player_position))
        <= RENDER_DISTANCE * RENDER_DISTANCE

\* The unload step of World::update
UnloadStep == pc = "update" /\ pc' = "entities"

\* C12: after the unload step of World::update the resident chunks are the
\* chunks resident before it whose squared distance, in chunks, from the
\* chunk containing the player's position is at most R * R, R = 8.
C12_UnloadRule ==
    [][UnloadStep => DOMAIN chunks' = {c \in DOMAIN chunks : WithinR(c)}]_vars

\* The request pass of the main loop, and the coordinates it sends a task for
RequestStep == pc = "request" /\ pc' = "drain"

Sent ==
    {task_channel'[i] : i \in (Len(task_channel) + 1)..Len(task_channel')}

\* C13: a request pass sends a task for exactly the coordinates (of those
\* followed) within R * R of the player's chunk, R = 8 as in the unload
\* rule, that are neither resident nor already requested.
C13_RequestRule ==
    [][RequestStep =>
         Sent = {c \in WorldWindow : /\ WithinR(c)
                                     /\ c \notin DOMAIN chunks
                                     /\ c \notin queued_chunks}]_vars

\* The main loop drains the results received
DrainStep == pc = "drain" /\ pc' = "update"

\* C14: a result drained for a coordinate outside the render distance of
\* the player is discarded: the chunk does not become resident, and when
\* every result drained is of that kind the world is as before.
C14_LateResultDiscarded ==
    [][DrainStep =>
         LET late == {i \in 1..Len(result_channel) :
                          ~WithinR(result_channel[i])
                          /\ ~InRenderDistance(result_channel[i], player_position)}
         IN  /\ \A i \in late : result_channel[i] \in DOMAIN chunks'
                                     => result_channel[i] \in DOMAIN chunks
             /\ late = 1..Len(result_channel)
                    => /\ chunks' = chunks
                       /\ changes' = changes
                       /\ chunk_outside_blocks' = chunk_outside_blocks]_vars


(***************************************************************************)
(* The visible set                                                         *)
(***************************************************************************)

\* The neighbour of chunk c on side i (0 -Z, 1 +Z, 2 +X, 3 -X, 4 +Y, 5 -Y)
\* is resident and its side that faces c holds FullOpaque blocks only
NeighbourEncloses(c, i) ==
    LET off == << <<0, 0, -1>>, <<0, 0, 1>>, <<1, 0, 0>>,
                  <<-1, 0, 0>>, <<0, 1, 0>>, <<0, -1, 0>> >>[i + 1]
        facing == <<1, 0, 3, 2, 5, 4>>[i + 1]
    IN  /\ Add3(c, off) \in DOMAIN chunks
        /\ Chunk_is_side_full(chunks[Add3(c, off)], facing)

\* C15: in the visible set update_mesh_visibility has computed, a resident
\* chunk inside the frustum is missing exactly when its six neighbours are
\* all resident and all turn a fully opaque side to it.
C15_EnclosureRule ==
    previous_vp # None =>
        \A c \in DOMAIN chunks :
            aabb_in_frustum(c, previous_vp[1]) =>
                (c \notin mesh_visible <=> \A i \in 0..5 : NeighbourEncloses(c, i))


(***************************************************************************)
(* Collision                                                               *)
(***************************************************************************)

\* The player's box at position p collides with the world
Colliding(p) ==
    World_is_player_colliding(TheWorld, p, PLAYER_WIDTH, PLAYER_HEIGHT)

\* C16: player_collision_mask, called with a collision-free old position,
\* flags X exactly when the box collides with the new x alone; Y exactly
\* when it collides with the new y and the x left by the X test; Z exactly
\* when it collides with the new z and the x and y left by the two tests
\* before; a flagged axis keeps the old coordinate, the others the new one.
\* So a move flagged on X alone has its whole z displacement, and a move
\* up to both walls of a corner of two full blocks is flagged on X and Z.
C16_AxisByAxis ==
    last.op = "player_collision_mask" =>
        LET old == last.args[1]
            new == last.args[2]
            c == last.result.collided
            p == last.result.pos
        IN  /\ c[1] <=> Colliding(<<new[1], old[2], old[3]>>)
            /\ c[2] <=> Colliding(<<p[1], new[2], old[3]>>)
            /\ c[3] <=> Colliding(<<p[1], p[2], new[3]>>)
            /\ \A a \in 1..3 : p[a] = IF c[a] THEN old[a] ELSE new[a]
            /\ p = player_position
            /\ ~Colliding(old) /\ ~Colliding(p)
            /\ (c = <<TRUE, FALSE, FALSE>>) => p[3] = new[3]
            /\ ( /\ Chunk_get_block(chunks[<<0, 0, 0>>], 6, 5, 5) = Stone
                 /\ Chunk_get_block(chunks[<<0, 0, 0>>], 5, 5, 6) = Stone
                 /\ old = Stand
                 /\ new[1] >= 6 * UNIT - PLAYER_WIDTH \div 2
                 /\ new[3] >= 6 * UNIT - PLAYER_WIDTH \div 2 )
                    => c[1] /\ c[3]

\* C16 witness: a diagonal move from the start into the corner of the full
\* blocks on the +X and the +Z side was stopped on both axes.
C16_Witness ==
    /\ last.op = "player_collision_mask"
    /\ last.args[1] = Stand
    /\ Chunk_get_block(chunks[<<0, 0, 0>>], 6, 5, 5) = Stone
    /\ Chunk_get_block(chunks[<<0, 0, 0>>], 5, 5, 6) = Stone
    /\ last.args[2][1] > last.args[1][1]
    /\ last.args[2][3] > last.args[1][3]
    /\ last.result.collided[1] /\ last.result.collided[3]
    /\ player_position[1] = Stand[1] /\ player_position[3] = Stand[3]

\* C17: World::load applied to the bytes World::save returns succeeds and
\* gives a world with the same seed, the same change log (the same keys with
\* the same blocks) and a registry with the same entity ids.
C17_SaveLoadRoundTrip ==
    last.op = "World::load" =>
        /\ last.result.ok
        /\ last.result.value.seed = seed
        /\ last.result.value.changes = changes
        /\ DOMAIN last.result.value.entities = DOMAIN entities

\* A world with a negative seed, edits in chunks of negative coordinates and
\* a Player and two Billboards was saved and loaded
C17_Witness ==
    /\ last.op = "World::load"
    /\ last.result.ok
    /\ seed = -2147483647
    /\ DOMAIN changes = ChangeKeys
    /\ changes[<< <<-1, 0, 2>>, <<15, 0, 7>> >>] = StoneStairsN
    /\ Cardinality(DOMAIN entities) = 3
    /\ Len(last.args[1]) > 100

\* C18: in a World::update pass every entity whose requests_removal() is
\* true at the start of the pass is removed from the registry and is not
\* updated in the pass, and no entity whose requests_removal() is false at
\* the start of the pass is removed by it.
C18_PurgeBeforeUpdate ==
    [][last'.op = "World::update" =>
          \A id \in DOMAIN entities :
              IF requests_removal(entities[id])
              THEN /\ id \notin last'.result.updated
                   /\ \/ id \notin DOMAIN entities'
                      \/ \E i \in 1..Len(last'.result.added) :
                             last'.result.added[i].id = id
              ELSE id \in DOMAIN entities']_vars

\* The pass before left a Billboard with life 0 and one that still lives;
\* this pass removed the first and updated the second
C18_Witness ==
    /\ last.op = "World::update"
    /\ last.args[1] = <<>>
    /\ last.result.removed = {EntityId_new(7, "Billboard")}
    /\ DOMAIN entities \cap {EntityId_new(r, "Billboard") : r \in RandomIds}
           = {EntityId_new(9, "Billboard")}
    /\ entities[EntityId_new(9, "Billboard")].life = 11
    /\ EntityId_new(9, "Billboard") \in last.result.updated
    /\ Cardinality(last.result.updated) = 2

\* C19: every add_entity call registers the entity under an id that is not
\* in use: the registry grows by one and keeps every entity it held.
C19_UniqueIds ==
    last.op = "World::update" =>
        \A i \in 1..Len(last.result.added) :
            LET call == last.result.added[i]
            IN  /\ call.id \notin call.before
                /\ call.before \subseteq call.after
                /\ Cardinality(call.after) = Cardinality(call.before) + 1

\* C20: a World::get_block at a position whose chunk is not resident returns
\* the 'unloaded' result, Air, and leaves the chunk not resident.
C20_UnloadedQuery ==
    [][( /\ pc = "entities" /\ last.op /= "get_block"
         /\ last'.op = "get_block"
         /\ last'.result.chunk \notin DOMAIN chunks )
        => ( /\ last'.result.block = Air
             /\ last'.result.chunk \notin DOMAIN chunks' )]_vars

\* The step is the drain of the frame, which calls World::add_chunk for
\* every result received
MergeStep == pc = "drain" /\ pc' = "update"

\* C21: when World::add_chunk merges a chunk, every slot of it the change
\* log has an entry for holds the block of that entry afterwards, also when
\* the overspill table had a block pending for the same slot.
C21_ChangeLogWins ==
    [][MergeStep =>
          \A B \in DOMAIN chunks' \ DOMAIN chunks :
              \A k \in DOMAIN changes :
                  k[1] = B =>
                      Chunk_get_block(chunks'[B], k[2][1], k[2][2], k[2][3])
                          = changes[k]]_vars

\* The drain of this frame has merged chunk (0, 0, 0) again: the slot the
\* player had edited had a Leaves block pending in the overspill table, the
\* merge has taken the entry out of the table and the slot holds the edit.
C21_Witness ==
    LET B == <<0, 0, 0>>
        key == <<B, <<0, 5, 6>>>>
    IN  /\ pc = "update"
        /\ B \in queued_chunks /\ B \in DOMAIN chunks
        /\ key \in DOMAIN changes /\ changes[key] = Dirt
        /\ key \notin DOMAIN chunk_outside_blocks
        /\ generated[<<-1, 0, 0>>].outside_blocks[key] = Leaves
        /\ Chunk_get_block(chunks[B], 0, 5, 6) = Dirt

\* C22: a Billboard applies its impulse to a given entity in at most one
\* update pass: once it has applied it in a pass, the following pass does
\* not apply it to that entity again.
C22_ImpulseOnce ==
    [][( /\ last.op = "World::update" /\ last'.op = "World::update"
         /\ last'.result.added = <<>> )
        => last.result.impulses \cap last'.result.impulses = {}]_vars

\* The ids Billboards are registered under
RegisteredBillboardIds == {EntityId_new(r, "Billboard") : r \in RandomIds}

\* add_entity was called with this id in the pass just made
AddedInPass(id, op) ==
    /\ op.op = "World::update"
    /\ \E i \in 1..Len(op.result.added) : op.result.added[i].id = id

\* C23: the life of a registered Billboard is at most its initial life; a
\* pass of World::update that starts with the life above 0 lowers it by one,
\* and a pass that starts with the life at 0 purges the Billboard; the one
\* other way out of the registry is that add_entity puts another Billboard
\* under its id.  So a Billboard with life n is out of the registry after
\* n + 1 passes at most.
C23_BillboardRemoved ==
    [][last'.op = "World::update" =>
          \A id \in RegisteredBillboardIds \cap DOMAIN entities :
              /\ entities[id].life \in 0..EXPLOSION_LIFE
              /\ \/ AddedInPass(id, last')
                 \/ IF entities[id].life = 0 THEN id \notin DOMAIN entities'
                    ELSE /\ id \in DOMAIN entities'
                         /\ entities'[id].life = entities[id].life - 1]_vars

\* The Billboard registered under 9 has lived its 25 updates and this pass
\* has purged it: the registry holds the Player alone
C23_Witness ==
    /\ last.op = "World::update"
    /\ last.result.removed = {EntityId_new(9, "Billboard")}
    /\ last.result.added = <<>>
    /\ Cardinality(DOMAIN entities) = 1

\* The block of the origin chunk at a position of the scene
BlockAt(cs, pos) == Chunk_get_block(cs[<<0, 0, 0>>], pos[1], pos[2], pos[3])

\* The number of blocks of the scene a break_block would still break
Breakable(cs) ==
    Cardinality({ i \in 1..Len(BreakPositions) :
                     BlockAt(cs, BreakPositions[i]) \notin {Air, Bedrock} })

\* What a frame still has before it: a call that has not run yet its start,
\* a call in its loops the (dx, dy, dz) left, each with the return of the
\* call made for it, and its own return
RECURSIVE FrameWork(_, _)
FrameWork(stack, from) ==
    IF from > Len(stack) THEN 0
    ELSE ( IF stack[from].stage = "enter" THEN 1
           ELSE 2 * (NUM_OFFSETS - stack[from].k) + 1 )
         + FrameWork(stack, from + 1)

\* A measure of the work left: every block to break counts for more than
\* a whole call's loops
BreakRank(cs, stack) == 300 * Breakable(cs) + FrameWork(stack, 1)

\* C24: every call of World::break_block terminates, whatever the
\* arrangement of adjacent Glungus blocks: each step of the recursion
\* lowers a measure that is never negative; a call on Air or Bedrock
\* returns with the blocks, the change log and the entities as they were;
\* every other call has set its block to Air (and logged it) before the
\* first call it makes for a neighbour, those being the positions within
\* squared distance 4.
C24_BreakTerminates ==
    [][ /\ BreakRank(chunks', call_stack') < BreakRank(chunks, call_stack)
        /\ BreakRank(chunks', call_stack') >= 0
        /\ LET n == Len(call_stack)
               frame == call_stack[n]
               block == BlockAt(chunks, frame.pos)
           IN  /\ (frame.stage = "enter" /\ block \in {Air, Bedrock}) =>
                      /\ chunks' = chunks /\ changes' = changes
                      /\ chunk_outside_blocks' = chunk_outside_blocks
                      /\ entities' = entities
                      /\ call_stack' = SubSeq(call_stack, 1, n - 1)
               /\ (frame.stage = "enter" /\ block \notin {Air, Bedrock}) =>
                      /\ BlockAt(chunks', frame.pos) = Air
                      /\ changes'[<<<<0, 0, 0>>, frame.pos>>] = Air
                      /\ Len(call_stack') <= n
                      /\ entities' = entities
               /\ Len(call_stack') > n =>
                      LET d == << call_stack'[n + 1].pos[1] - frame.pos[1],
                                  call_stack'[n + 1].pos[2] - frame.pos[2],
                                  call_stack'[n + 1].pos[3] - frame.pos[3] >>
                      IN  /\ BlockAt(chunks, frame.pos) = Air
                          /\ d[1] * d[1] + d[2] * d[2] + d[3] * d[3] <= 4
                          /\ chunks' = chunks /\ changes' = changes
      ]_vars

\* The call on the first of three Glungus blocks, two side by side and the
\* third two blocks further, has returned: the three are Air, each has left
\* its Billboard or shares its id with another, and the Stone out of reach
\* is where it was
C24_Witness ==
    /\ call_stack = <<>>
    /\ last.op = "explode" /\ last.args = BreakPositions[1]
    /\ \A i \in 1..3 : BlockAt(chunks, BreakPositions[i]) = Air
    /\ \A i \in 1..3 : <<<<0, 0, 0>>, BreakPositions[i]>> \in DOMAIN changes
    /\ BlockAt(chunks, BreakPositions[4]) = Stone
    /\ Cardinality(DOMAIN entities) = 3

\* C25: after every World::generate_meshes, the data of the mesh of every
\* resident chunk is what generate_chunk_mesh produces from the chunk's
\* blocks and its resident neighbours as they are now: no edit, emptying
\* the chunk or not, and no load or unload of a face-adjacent chunk leaves
\* a stale mesh.
C25_NoStaleMesh ==
    pc = "events" =>
        \A c \in DOMAIN meshes \cap DOMAIN chunks :
            mesh_data[c] =
                generate_chunk_mesh(chunks[c], NeighbourChunksOf(chunks, c))

\* The coordinate is in queued_chunks, its chunk is not resident, and no
\* task and no result for it is under way
Stuck(c) ==
    /\ c \in queued_chunks
    /\ c \notin DOMAIN chunks
    /\ \A i \in 1..Len(task_channel) : task_channel[i] # c
    /\ \A i \in 1..Len(result_channel) : result_channel[i] # c

\* C26: with the player at rest at a position and the generation thread
\* handling its tasks, every chunk coordinate within the radius of the
\* request rule around the player becomes resident and stays resident, and
\* none stays for ever in queued_chunks with its chunk not resident and not
\* being generated.
C26_RequestedBecomesResident ==
    \A p \in LoadPositions : \A c \in WorldWindow :
        InChunkRadius(c, p) =>
            ( <>[](player_position = p) =>
                  /\ <>[](c \in DOMAIN chunks)
                  /\ ~<>[]Stuck(c) )

\* C27: after every call of update_mesh_visibility(vp) the visible set
\* holds resident chunks only and holds every resident chunk whose box is
\* inside the frustum of vp and that is not enclosed, also when chunks were
\* loaded or unloaded since the call before and vp is the same.
C27_VisibleSetCurrent ==
    (pc = "events" /\ previous_vp # None) =>
        /\ mesh_visible \subseteq DOMAIN chunks
        /\ \A c \in DOMAIN chunks :
               ( /\ aabb_in_frustum(c, previous_vp[1])
                 /\ ~NeighbourChunks_all_side_full(NeighbourChunksOf(chunks, c)) )
                   => c \in mesh_visible

\* The unit cube of the block at block position b and the player's box of
\* width() and height() at position p have a volume in common
OverlapsPlayer(b, p) ==
    /\ p[1] - PLAYER_WIDTH \div 2 < (b[1] + 1) * UNIT
    /\ p[1] + PLAYER_WIDTH \div 2 > b[1] * UNIT
    /\ p[2] < (b[2] + 1) * UNIT
    /\ p[2] + PLAYER_HEIGHT > b[2] * UNIT
    /\ p[3] - PLAYER_WIDTH \div 2 < (b[3] + 1) * UNIT
    /\ p[3] + PLAYER_WIDTH \div 2 > b[3] * UNIT

\* C28: after Player::update has handled a placement, the placed block is
\* in the world only if it does not overlap the player's box of width() and
\* height() at the player's position; a placement that overlaps the box has
\* been reverted.
C28_NoBlockInsidePlayer ==
    last.op = "place" =>
        ( OverlapsPlayer(last.args, player_position) =>
              /\ last.result.reverted
              /\ World_get_block(TheWorld, last.args[1], last.args[2],
                                 last.args[3]).block = Air )

\* The overspill chunk A generated for chunk B: key -> block
OverspillFor(A, B) ==
    LET out == generated[A].outside_blocks
    IN  [k \in {k \in DOMAIN out : k[1] = B} |-> out[k]]

\* Chunk B has been merged with the overspill of chunk A, and A has been
\* resident since: A is resident and its entries for B are no longer in
\* the overspill table, which add_chunk of A would have filled again
ReceivedOverspill(A, B) ==
    /\ A \in DOMAIN chunks
    /\ DOMAIN OverspillFor(A, B) # {}
    /\ DOMAIN OverspillFor(A, B) \cap DOMAIN chunk_outside_blocks = {}

\* C29: overspill blocks survive a reload of their target chunk: when
\* chunk B, which received the overspill of chunk A at a merge, becomes
\* resident again after an unload while A stayed resident, B holds those
\* blocks again, but for the slots a change-log edit overrides.
C29_OverspillSurvivesReload ==
    [][MergeStep =>
          \A A \in WorldWindow : \A B \in DOMAIN chunks' \ DOMAIN chunks :
              (A # B /\ ReceivedOverspill(A, B) /\ A \in DOMAIN chunks') =>
                  \A k \in DOMAIN OverspillFor(A, B) :
                      k \notin DOMAIN changes =>
                          Chunk_get_block(chunks'[B], k[2][1], k[2][2], k[2][3])
                              = OverspillFor(A, B)[k]
      ]_vars

\* C30: after any sequence of Connect and Disconnect messages, every
\* connection id maps to an existing session, every session is referenced
\* by exactly one connection id, and the entity of every session is in the
\* world; once every connection that sent Connect has sent Disconnect, no
\* session and no player entity is left.
C30_SessionsMatchConnections ==
    /\ \A c \in DOMAIN server.connections :
           server.connections[c] \in DOMAIN server.sessions
    /\ \A u \in DOMAIN server.sessions :
           /\ Cardinality({c \in DOMAIN server.connections :
                               server.connections[c] = u}) = 1
           /\ server.sessions[u].entity_id \in DOMAIN server.entities
    /\ DOMAIN server.connections = {} =>
           (DOMAIN server.sessions = {} /\ DOMAIN server.entities = {})

====
